---- MODULE Spec2Model ----
(***************************************************************************)
(* Nutrition aggregation and day-collection model of the fitness tracker   *)
(* (src/app/page.tsx).  Decimals are fixed-point: the integer n stands for *)
(* the decimal n/Scale, and a product of two such numbers for n/Scale^2.   *)
(* The arithmetic is exact; binary floating-point noise is not modelled.   *)
(***************************************************************************)
EXTENDS Integers, Sequences, FiniteSets, TLC

VARIABLES
    nutritionDays,  \* useState(ft_nutrition_v3): the sequence of stored Days
    nutriDate,      \* useState(todayISODate): the selected calendar date
    nextId,         \* number of identities uid() has handed out
    fault,          \* TRUE when the last handler ended in an uncaught exception
    last,           \* the last handler that ran, its arguments, the source day it chose
    arg,            \* input of a direct call to a pure helper
    ret,            \* result of that call
    exercises,      \* useState(ft_exercises_v3): the exercise library
    workouts,       \* useState(ft_workouts_v3): the saved workouts
    macroGoals,     \* useState(ft_macro_goals_v1): the daily macro goals
    search,         \* FoodSearch: q, status, error, results, searches in flight
    proxy,          \* the lookup route: the request it serves and its progress
    storage,        \* localStorage: whether it can be written, and its items
    activeWorkout   \* useState(null): the workout being built, Null when none

vars == <<nutritionDays, nutriDate, nextId, fault, last, arg, ret,
          exercises, workouts, macroGoals, search, proxy, storage, activeWorkout>>

libVars == <<exercises, workouts, macroGoals, activeWorkout>>

netVars == <<search, proxy>>

appVars == <<nutritionDays, nutriDate, nextId, fault, last>>

callVars == <<arg, ret>>

-----------------------------------------------------------------------------
(* Bounds of the model *)

MaxMealItems == 2     \* items in a meal handed directly to calcMealTotals
MaxWeekDays == 2      \* stored days in a collection handed to WeeklyAverages
MaxTimelineDays == 3  \* days in a history handed to the timelines
MaxNutrients == 2     \* entries in a food handed to extractMacrosFromFDC
MaxSearches == 2      \* searches in flight at once
MaxDate == 1           \* the date input ranges over the calendar dates 0..MaxDate
MaxWorkouts == 3      \* saved workouts in the history
MaxWorkoutIds == 6    \* identities handed out while workouts are built
MaxIds == 4            \* identities uid() hands out in one run

-----------------------------------------------------------------------------
(* JavaScript values of the decimal fields *)

Scale == 20           \* n stands for n/Scale, so the grain is 0.05

Undef == [t |-> "undefined", n |-> 0]   \* absent field / undefined
Null  == [t |-> "null", n |-> 0]
Empty == [t |-> "string", n |-> 0]      \* the empty string ""
Text  == [t |-> "string", n |-> 1]      \* a string that is no number, "abc"
Inf   == [t |-> "infinity", n |-> 0]    \* the string "Infinity" (or "1e999")
NaN   == [t |-> "nan", n |-> 0]
Num(n) == [t |-> "number", n |-> n]     \* the number (or numeric string) n/Scale

Number(v) ==
    CASE v = Undef -> NaN
      [] v = Null  -> Num(0)
      [] v = Empty -> Num(0)
      [] v = Text  -> NaN
      [] OTHER     -> v

isFinite(x) == x.t = "number"

Min(a, b) == IF a < b THEN a ELSE b

Max(a, b) == IF a > b THEN a ELSE b

\* Math.round(a/den): the nearest integer, a tie going up
MathRound(a, den) == (2 * a + den) \div (2 * den)

num(v) ==
    LET n == Number(v)
    IN  IF isFinite(n) THEN n.n ELSE 0

\* round1 of the number n/den; the result is at Scale
round1(n, den) == (Scale \div 10) * MathRound(n * 10, den)

clamp(v, min, max) ==
    LET n == Number(v)
    IN  IF ~isFinite(n) THEN min ELSE Min(max, Max(min, n.n))

-----------------------------------------------------------------------------
(* Meals, food items, totals *)

MEALS == <<"Breakfast", "Lunch", "Dinner", "Snack">>

MealNames == {MEALS[i] : i \in 1..Len(MEALS)}

QtyMin == 0

QtyMax == 100

QtyDefault == 1

emptyMeals == [m \in MealNames |-> [items |-> <<>>]]

\* a ?? b
Coalesce(a, b) == IF a = Undef \/ a = Null THEN b ELSE a

\* normalizeFoodItem with || for ?? on the macros: a per-serving 0 becomes ""
normalizeFoodItemOr(it) ==
    LET qty == IF it.qty = Undef \/ it.qty = Null \/ it.qty = Empty
               THEN Num(QtyDefault * Scale)
               ELSE Num(clamp(it.qty, QtyMin * Scale, QtyMax * Scale))
        Or(a, b) == IF a \in {Undef, Null, Empty, Num(0), NaN} THEN b ELSE a
    IN  [it EXCEPT !.qty = qty,
                   !.calories = Or(it.calories, Empty),
                   !.protein = Or(it.protein, Empty),
                   !.carbs = Or(it.carbs, Empty),
                   !.fat = Or(it.fat, Empty)]

\* normalizeFoodItem with !it.qty for the three-way test: qty 0 counts as absent
normalizeFoodItemFalsyQty(it) ==
    LET qty == IF it.qty \in {Undef, Null, Empty, Num(0), NaN}
               THEN Num(QtyDefault * Scale)
               ELSE Num(clamp(it.qty, QtyMin * Scale, QtyMax * Scale))
    IN  [it EXCEPT !.qty = qty,
                   !.calories = Coalesce(it.calories, Empty),
                   !.protein = Coalesce(it.protein, Empty),
                   !.carbs = Coalesce(it.carbs, Empty),
                   !.fat = Coalesce(it.fat, Empty)]

normalizeFoodItem(it) ==
    LET qty == IF it.qty = Undef \/ it.qty = Null \/ it.qty = Empty
               THEN Num(QtyDefault * Scale)
               ELSE Num(clamp(it.qty, QtyMin * Scale, QtyMax * Scale))
    IN  [it EXCEPT !.qty = qty,
                   !.calories = Coalesce(it.calories, Empty),
                   !.protein = Coalesce(it.protein, Empty),
                   !.carbs = Coalesce(it.carbs, Empty),
                   !.fat = Coalesce(it.fat, Empty)]

MapNormalize(items) == [i \in 1..Len(items) |-> normalizeFoodItem(items[i])]

ZeroTotals == [calories |-> 0, protein |-> 0, carbs |-> 0, fat |-> 0]

\* AddItem with the servings clamped to [1, 100]
AddItemMinOne(t, it) ==
    LET q == clamp(it.qty, 1 * Scale, QtyMax * Scale)
    IN  [calories |-> t.calories + num(it.calories) * q,
         protein |-> t.protein + num(it.protein) * q,
         carbs |-> t.carbs + num(it.carbs) * q,
         fat |-> t.fat + num(it.fat) * q]

\* the reduce callback of calcMealTotals; the accumulator is at Scale^2
AddItem(t, it) ==
    LET q == clamp(it.qty, QtyMin * Scale, QtyMax * Scale)
    IN  [calories |-> t.calories + num(it.calories) * q,
         protein |-> t.protein + num(it.protein) * q,
         carbs |-> t.carbs + num(it.carbs) * q,
         fat |-> t.fat + num(it.fat) * q]

RECURSIVE ReduceItems(_, _)
ReduceItems(items, t) ==
    IF items = <<>> THEN t ELSE ReduceItems(Tail(items), AddItem(t, Head(items)))

\* meal?.items || []
ItemsOf(meal) == IF "items" \in DOMAIN meal THEN meal.items ELSE <<>>

\* meals[m]: undefined when the mapping has no such key
MealAt(meals, m) == IF m \in DOMAIN meals THEN meals[m] ELSE Undef

\* calcMealTotals without .map(normalizeFoodItem): an absent qty clamps to 0
calcMealTotalsNoNormalize(meal) ==
    LET totals == ReduceItems(ItemsOf(meal), ZeroTotals)
    IN  [calories |-> round1(totals.calories, Scale * Scale),
         protein |-> round1(totals.protein, Scale * Scale),
         carbs |-> round1(totals.carbs, Scale * Scale),
         fat |-> round1(totals.fat, Scale * Scale)]

\* calcMealTotals with Math.round(x) for round1(x)
calcMealTotalsRoundInt(meal) ==
    LET items == MapNormalize(ItemsOf(meal))
        totals == ReduceItems(items, ZeroTotals)
    IN  [calories |-> Scale * MathRound(totals.calories, Scale * Scale),
         protein |-> Scale * MathRound(totals.protein, Scale * Scale),
         carbs |-> Scale * MathRound(totals.carbs, Scale * Scale),
         fat |-> Scale * MathRound(totals.fat, Scale * Scale)]

calcMealTotals(meal) ==
    LET items == MapNormalize(ItemsOf(meal))
        totals == ReduceItems(items, ZeroTotals)
    IN  [calories |-> round1(totals.calories, Scale * Scale),
         protein |-> round1(totals.protein, Scale * Scale),
         carbs |-> round1(totals.carbs, Scale * Scale),
         fat |-> round1(totals.fat, Scale * Scale)]

\* the reduce callback of calcDayTotals; the accumulator is at Scale
AddMeal(t, mt) ==
    [calories |-> t.calories + num(Num(mt.calories)),
     protein |-> t.protein + num(Num(mt.protein)),
     carbs |-> t.carbs + num(Num(mt.carbs)),
     fat |-> t.fat + num(Num(mt.fat))]

RECURSIVE ReduceMeals(_, _, _)
ReduceMeals(meals, names, t) ==
    IF names = <<>> THEN t
    ELSE ReduceMeals(meals, Tail(names),
                     AddMeal(t, calcMealTotals(MealAt(meals, Head(names)))))

\* day?.meals || emptyMeals()
MealsOf(day) == IF "meals" \in DOMAIN day THEN day.meals ELSE emptyMeals

\* calcDayTotals over the first three meals only
calcDayTotalsThreeMeals(day) ==
    LET totals == ReduceMeals(MealsOf(day), SubSeq(MEALS, 1, 3), ZeroTotals)
    IN  [calories |-> round1(totals.calories, Scale),
         protein |-> round1(totals.protein, Scale),
         carbs |-> round1(totals.carbs, Scale),
         fat |-> round1(totals.fat, Scale)]

calcDayTotals(day) ==
    LET totals == ReduceMeals(MealsOf(day), MEALS, ZeroTotals)
    IN  [calories |-> round1(totals.calories, Scale),
         protein |-> round1(totals.protein, Scale),
         carbs |-> round1(totals.carbs, Scale),
         fat |-> round1(totals.fat, Scale)]

-----------------------------------------------------------------------------
(* Calendar dates.  An ISO timestamp is a number of ticks; a calendar date  *)
(* is a day index, and TicksPerDay ticks make a day (tick 0 is 00:00).      *)

TicksPerDay == 2

isoDateFromInput(dateStr) == dateStr * TicksPerDay

toISODateInput(iso) == iso \div TicksPerDay

sameDayISO(aISO, bISO) == toISODateInput(aISO) = toISODateInput(bISO)

-----------------------------------------------------------------------------
(* Array helpers *)

\* arr.filter(keep), keep given as the set of indices kept
RECURSIVE FilterSeq(_, _, _)
FilterSeq(s, keep, i) ==
    IF i > Len(s) THEN <<>>
    ELSE (IF i \in keep THEN <<s[i]>> ELSE <<>>) \o FilterSeq(s, keep, i + 1)

\* arr.findIndex(pred), pred given as the set of indices that satisfy it; 0 for -1
FindIndex(hits) == IF hits = {} THEN 0 ELSE CHOOSE i \in hits : \A j \in hits : i <= j

\* the comparator (a, b) => (a.date < b.date ? 1 : -1)
dateDesc(a, b) == IF a.date < b.date THEN 1 ELSE -1

\* the comparator (a, b) => (a.date < b.date ? -1 : 1)
dateAsc(a, b) == IF a.date < b.date THEN -1 ELSE 1

\* the comparator (a, b) => (a.createdAt < b.createdAt ? 1 : -1)
createdAtDesc(a, b) == IF a.createdAt < b.createdAt THEN 1 ELSE -1

\* the comparator named cmp, applied to a and b
Compare(cmp, a, b) ==
    CASE cmp = "dateDesc" -> dateDesc(a, b)
      [] cmp = "dateAsc" -> dateAsc(a, b)
      [] cmp = "createdAtDesc" -> createdAtDesc(a, b)

\* s without its k-th element
RemoveAt(s, k) == SubSeq(s, 1, k - 1) \o SubSeq(s, k + 1, Len(s))

\* arr.sort(cmp): every order the sort may leave.  These comparators never
\* answer 0: for two days of one date they answer the same sign both ways, so
\* the order of the two is the engine's choice; a pair is misplaced only when
\* the comparator puts it the other way round in both directions.
RECURSIVE SortBy(_, _)
SortBy(s, cmp) ==
    IF s = <<>> THEN {<<>>}
    ELSE UNION {{<<s[k]>> \o rest : rest \in SortBy(RemoveAt(s, k), cmp)} :
                k \in {h \in 1..Len(s) :
                          \A j \in 1..Len(s) \ {h} :
                              ~(/\ Compare(cmp, s[h], s[j]) > 0
                                /\ Compare(cmp, s[j], s[h]) < 0)}}

-----------------------------------------------------------------------------
(* Weekly averages *)

WeekDays == 7

\* new Map(days.map(d => [toISODateInput(d.date), d])).get(key): a later day
\* overwrites an earlier one with the same key; Undef when there is none
ByISOGet(days, key) ==
    LET hits == {i \in 1..Len(days) : toISODateInput(days[i].date) = key}
    IN  IF hits = {} THEN Undef
        ELSE days[CHOOSE i \in hits : \A j \in hits : j <= i]

AddTotals(s, t) ==
    [calories |-> s.calories + num(Num(t.calories)),
     protein |-> s.protein + num(Num(t.protein)),
     carbs |-> s.carbs + num(Num(t.carbs)),
     fat |-> s.fat + num(Num(t.fat))]

\* the loop for (let i = 6; i >= 0; i--) followed by items.reduce
RECURSIVE WeekSum(_, _, _)
WeekSum(days, anchorISO, i) ==
    IF i < 0 THEN ZeroTotals
    ELSE LET key == toISODateInput(anchorISO) - i
             found == ByISOGet(days, key)
             totals == IF found # Undef THEN calcDayTotals(found) ELSE ZeroTotals
         IN  AddTotals(WeekSum(days, anchorISO, i - 1), totals)

\* WeeklyAverages dividing by the number of logged days of the week
WeeklyAveragesLoggedOnly(days, anchorISO) ==
    LET sum == WeekSum(days, anchorISO, WeekDays - 1)
        n == Max(1, Cardinality({i \in 0..(WeekDays - 1) :
                    ByISOGet(days, toISODateInput(anchorISO) - i) # Undef}))
    IN  [calories |-> Scale * MathRound(sum.calories, n * Scale),
         protein |-> (Scale \div 10) * MathRound(sum.protein * 10, n * Scale),
         carbs |-> (Scale \div 10) * MathRound(sum.carbs * 10, n * Scale),
         fat |-> (Scale \div 10) * MathRound(sum.fat * 10, n * Scale)]

WeeklyAverages(days, anchorISO) ==
    LET sum == WeekSum(days, anchorISO, WeekDays - 1)
    IN  [calories |-> Scale * MathRound(sum.calories, WeekDays * Scale),
         protein |-> (Scale \div 10) * MathRound(sum.protein * 10, WeekDays * Scale),
         carbs |-> (Scale \div 10) * MathRound(sum.carbs * 10, WeekDays * Scale),
         fat |-> (Scale \div 10) * MathRound(sum.fat * 10, WeekDays * Scale)]

-----------------------------------------------------------------------------
(* Timelines *)

\* d?.date is set
HasDate(d) == "date" \in DOMAIN d

\* o[k], undefined when o has no member k
Member(o, k) == IF k \in DOMAIN o THEN o[k] ELSE Undef

\* s.slice(-n): the last n elements; slice(-0) is slice(0), the whole array
SliceLast(s, n) ==
    IF n = 0 THEN s
    ELSE IF n < 0 THEN SubSeq(s, 1 - n, Len(s))
    ELSE SubSeq(s, Max(1, Len(s) - n + 1), Len(s))

\* the dated days in the orders .filter(d => d?.date).sort(asc) may leave
SortedDated(days) ==
    SortBy(FilterSeq(days, {i \in 1..Len(days) : HasDate(days[i])}, 1), "dateAsc")

\* weight as the timelines show it: null when unset, else Number(d.weight)
TimelineWeight(d) ==
    IF Member(d, "weight") \in {Undef, Null, Empty} THEN Null
    ELSE Number(Member(d, "weight"))

\* the map callback of buildMacroTimeline
MacroEntry(d) ==
    LET totals == calcDayTotals(d)
    IN  [iso |-> d.date, calories |-> totals.calories, protein |-> totals.protein,
         carbs |-> totals.carbs, fat |-> totals.fat, weight |-> TimelineWeight(d)]

\* buildMacroTimeline taking the first limit days of the sorted history
buildMacroTimelineFirst(days, limit) ==
    {[i \in 1..Min(limit, Len(s)) |-> MacroEntry(s[i])] : s \in SortedDated(days)}

\* the series buildMacroTimeline may return
buildMacroTimeline(days, limit) ==
    {[i \in 1..Len(t) |-> MacroEntry(t[i])] :
        t \in {SliceLast(s, limit) : s \in SortedDated(days)}}

WindowBack == 6

\* window.reduce((s, x) => s + num(x.calories), 0) over series[from..to]
RECURSIVE WindowSum(_, _, _)
WindowSum(series, from, to) ==
    IF to < from THEN 0
    ELSE WindowSum(series, from, to - 1) + series[to].calories

\* the map callback of WeightCaloriesChart
ChartEntry(d) ==
    [iso |-> d.date, calories |-> calcDayTotals(d).calories, weight |-> TimelineWeight(d)]

\* the loop that sets caloriesAvg7 on every entry of the series
WithRollingAverage(series) ==
    [i \in 1..Len(series) |->
        LET start == Max(1, i - WindowBack)
        IN  [iso |-> series[i].iso, calories |-> series[i].calories,
             weight |-> series[i].weight,
             caloriesAvg7 |-> round1(WindowSum(series, start, i),
                                     (i - start + 1) * Scale)]]

\* WeightCaloriesChart averaging over the whole history before truncating it
WeightCaloriesChartFullHistory(days, range) ==
    {SliceLast(WithRollingAverage([i \in 1..Len(s) |-> ChartEntry(s[i])]), range) :
        s \in SortedDated(days)}

\* the series WeightCaloriesChart may plot
WeightCaloriesChart(days, range) ==
    {WithRollingAverage([i \in 1..Len(t) |-> ChartEntry(t[i])]) :
        t \in {SliceLast(s, range) : s \in SortedDated(days)}}

-----------------------------------------------------------------------------
(* Browser storage *)

\* a JSON array, as a member of a parsed file
Arr(s) == [t |-> "array", v |-> s]

isArray(x) == x.t = "array"

\* x is truthy: not undefined, null, "", 0 or NaN
Truthy(x) == x \notin {Undef, Null, Empty, Num(0), NaN}

\* the keys the collections are kept under
StorageKeys == {"ft_exercises_v3", "ft_workouts_v3", "ft_nutrition_v3", "ft_macro_goals_v1"}

\* JSON.stringify(value): the text that JSON.parse turns back into value
Json(value) == [t |-> "json", v |-> value]

\* loadJSON.  store.mode is "ok", "full" (setItem throws), "denied" (every
\* access throws) or "none" (no window); an item is Null (no entry), Empty,
\* Text (a text JSON.parse throws on) or a JSON text
loadJSON(store, key, fallback) ==
    IF store.mode = "none" THEN fallback
    ELSE IF store.mode = "denied" THEN fallback
    ELSE LET raw == store.items[key]
         IN  IF raw = Null \/ raw = Empty THEN fallback
             ELSE IF raw = Text THEN fallback
             ELSE Coalesce(raw.v, fallback)

\* saveJSON without its try/catch: a failed write raises to the caller
saveJSONUncaught(store, key, value) ==
    IF store.mode = "ok"
    THEN [store EXCEPT !.items[key] = Json(value)]
    ELSE [store EXCEPT !.raised = TRUE]

\* saveJSON: the storage after the call; a failed write is swallowed
saveJSON(store, key, value) ==
    IF store.mode = "ok"
    THEN [store EXCEPT !.items[key] = Json(value)]
    ELSE store

\* the four saving effects, run after a render that changed the collections
SaveAll(store, ex, ws, nd, goals) ==
    saveJSON(saveJSON(saveJSON(saveJSON(store, "ft_macro_goals_v1", goals),
                               "ft_exercises_v3", Arr(ex)),
                      "ft_workouts_v3", Arr(ws)),
             "ft_nutrition_v3", Arr(nd))

\* the effects after a render in which any collection may have changed
persist == storage' = SaveAll(storage, exercises', workouts', nutritionDays', macroGoals')

\* the effect after a render in which only nutritionDays changed
persistDays == storage' = saveJSON(storage, "ft_nutrition_v3", Arr(nutritionDays'))

-----------------------------------------------------------------------------
(* The nutrition-day collection and its handlers *)

Dates == 0..MaxDate

NoId == 0             \* id: null, or no id at all

NoDay == Undef

uid(k) == nextId + k  \* the k-th identity handed out by the running handler

Indices(s) == 1..Len(s)

\* { ...a, ...patch }
Spread(a, patch) ==
    [k \in DOMAIN a \cup DOMAIN patch |-> IF k \in DOMAIN patch THEN patch[k] ELSE a[k]]

\* nutritionDays.find(d => sameDayISO(d.date, dayISO)) || { id: null, ... }
selectedDay ==
    LET dayISO == isoDateFromInput(nutriDate)
        idx == FindIndex({i \in Indices(nutritionDays) :
                            sameDayISO(nutritionDays[i].date, dayISO)})
    IN  IF idx # 0 THEN nutritionDays[idx]
        ELSE [id |-> NoId, date |-> dayISO, meals |-> emptyMeals,
              notes |-> "", weight |-> Empty]

selectedDayTotals == calcDayTotals(selectedDay)

\* upsertDay that rebuilds a stored day from its id, its date and the patch
upsertDayRebuilds(days, patch, newId) ==
    LET dayISO == isoDateFromInput(nutriDate)
        idx == FindIndex({i \in Indices(days) : sameDayISO(days[i].date, dayISO)})
    IN  IF idx = 0
        THEN SortBy(<<Spread([id |-> newId, date |-> dayISO, meals |-> emptyMeals,
                              notes |-> "", weight |-> Empty], patch)>> \o days,
                    "dateDesc")
        ELSE {[days EXCEPT ![idx] =
                  Spread([id |-> days[idx].id, date |-> days[idx].date,
                          meals |-> emptyMeals, notes |-> "", weight |-> Empty],
                         patch)]}

\* the collections upsertDay(patch) may leave; newId is the uid() of a new day
upsertDay(days, patch, newId) ==
    LET dayISO == isoDateFromInput(nutriDate)
        idx == FindIndex({i \in Indices(days) : sameDayISO(days[i].date, dayISO)})
    IN  IF idx = 0
        THEN SortBy(<<Spread([id |-> newId, date |-> dayISO, meals |-> emptyMeals,
                              notes |-> "", weight |-> Empty], patch)>> \o days,
                    "dateDesc")
        ELSE {[days EXCEPT ![idx] = Spread(days[idx], patch)]}

\* whether upsertDay creates a day
IsNewDay(days) ==
    \A i \in Indices(days) : ~sameDayISO(days[i].date, isoDateFromInput(nutriDate))

\* { ...(selectedDay.meals || emptyMeals()) } with meals[mealName] replaced
WithMeal(mealName, items) ==
    Spread(MealsOf(selectedDay), [m \in {mealName} |-> [items |-> items]])

\* PrevDays with the sort ascending: the oldest prior day comes first
PrevDaysOldest(days, dayISO) ==
    LET older == FilterSeq(days, {i \in Indices(days) : days[i].date < dayISO}, 1)
    IN  IF older = <<>> THEN {NoDay} ELSE {s[1] : s \in SortBy(older, "dateAsc")}

\* the prior days the copy handlers may pick:
\* nutritionDays.filter(d => new Date(d.date) < dayDate).sort(...)[0]
PrevDays(days, dayISO) ==
    LET older == FilterSeq(days, {i \in Indices(days) : days[i].date < dayISO}, 1)
    IN  IF older = <<>> THEN {NoDay} ELSE {s[1] : s \in SortBy(older, "dateDesc")}

\* JSON.parse(JSON.stringify(v)): the values of the model are strings, finite
\* numbers, null, arrays and objects, which the round trip rebuilds as they are
\* (an undefined member is dropped, and an absent member reads as undefined)
jsonClone(v) == v

\* items.map((it) => normalizeFoodItem({ ...it, id: uid() })), first uid base+1
CopyItems(items, base) ==
    [i \in Indices(items) |-> normalizeFoodItem([items[i] EXCEPT !.id = uid(base + i)])]

\* number of identities the copy of the meals before MEALS[k] has used
RECURSIVE CountBefore(_, _)
CountBefore(meals, k) ==
    IF k <= 1 THEN 0
    ELSE CountBefore(meals, k - 1) + Len(ItemsOf(MealAt(meals, MEALS[k - 1])))

MealIndex(m) == CHOOSE k \in Indices(MEALS) : MEALS[k] = m

CountAll(meals) == CountBefore(meals, Len(MEALS) + 1)

(* Inputs of the handlers *)

\* what the manual form holds when "Add to meal" is pressed (name non-empty)
FormInputs ==
    {[qty |-> Num(150 * Scale), calories |-> Num(1), protein |-> Num(25),
      carbs |-> Text, fat |-> Empty]}

\* ManualFoodForm's onClick: the item handed to onAdd
ManualFoodForm(f) ==
    normalizeFoodItem([id |-> NoId, name |-> "food",
                       qty |-> IF f.qty = Empty THEN Num(1 * Scale) ELSE f.qty,
                       calories |-> f.calories, protein |-> f.protein,
                       carbs |-> f.carbs, fat |-> f.fat])

\* the items the manual form hands to onAdd
FormItems == {ManualFoodForm(f) : f \in FormInputs}

\* what a row's inputs send to onChange: one field and the text typed
PatchInputs ==
    {[qty |-> v] : v \in {Empty, Inf, Num(-1 * Scale), Num(150 * Scale)}}


WeightInputs == {Empty, Num(1410)}

\* the meal sections the user works in
MealInputs == {"Breakfast", "Lunch"}

NotesInputs == {"", "note"}

NoInput == [none |-> TRUE]

Ran(op, src, input) == last' = [op |-> op, src |-> src, input |-> input]

SetDays(choices) == \E ds \in choices : nutritionDays' = ds

(* Handlers *)

setNutriDate(d) ==
    /\ nutriDate' = d
    /\ Ran("setNutriDate", NoDay, [date |-> d])
    /\ fault' = FALSE
    /\ UNCHANGED <<nutritionDays, nextId, callVars, libVars, netVars, storage>>

addFoodToMeal(mealName, item) ==
    LET prev == ItemsOf(MealAt(MealsOf(selectedDay), mealName))
        new == normalizeFoodItem([item EXCEPT !.id = uid(1)])
        used == IF IsNewDay(nutritionDays) THEN 2 ELSE 1
    IN  /\ nextId + used <= MaxIds
        /\ SetDays(upsertDay(nutritionDays,
                             [meals |-> WithMeal(mealName, <<new>> \o prev)], uid(2)))
        /\ nextId' = nextId + used
        /\ Ran("addFoodToMeal", NoDay, [mealName |-> mealName, item |-> item])
        /\ fault' = FALSE
        /\ UNCHANGED <<nutriDate, callVars, libVars, netVars>>
        /\ persistDays

\* updateFoodItem that stores the merged item without normalizing it
updateFoodItemRaw(mealName, itemId, patch) ==
    LET prev == ItemsOf(MealAt(MealsOf(selectedDay), mealName))
        items == [i \in Indices(prev) |->
                    IF prev[i].id = itemId THEN Spread(prev[i], patch) ELSE prev[i]]
    IN  /\ \E i \in Indices(prev) : prev[i].id = itemId
        /\ SetDays(upsertDay(nutritionDays, [meals |-> WithMeal(mealName, items)],
                             uid(1)))
        /\ Ran("updateFoodItem", NoDay,
               [mealName |-> mealName, itemId |-> itemId, patch |-> patch])
        /\ fault' = FALSE
        /\ UNCHANGED <<nutriDate, nextId, callVars, libVars, netVars>>
        /\ persistDays

updateFoodItem(mealName, itemId, patch) ==
    LET prev == ItemsOf(MealAt(MealsOf(selectedDay), mealName))
        items == [i \in Indices(prev) |->
                    IF prev[i].id = itemId
                    THEN normalizeFoodItem(Spread(prev[i], patch)) ELSE prev[i]]
    IN  /\ \E i \in Indices(prev) : prev[i].id = itemId
        /\ SetDays(upsertDay(nutritionDays, [meals |-> WithMeal(mealName, items)],
                             uid(1)))
        /\ Ran("updateFoodItem", NoDay,
               [mealName |-> mealName, itemId |-> itemId, patch |-> patch])
        /\ fault' = FALSE
        /\ UNCHANGED <<nutriDate, nextId, callVars, libVars, netVars>>
        /\ persistDays

\* removeFoodItem that filters by the name of the item instead of its id
removeFoodItemByName(mealName, itemId) ==
    LET prev == ItemsOf(MealAt(MealsOf(selectedDay), mealName))
        hit == CHOOSE i \in Indices(prev) : prev[i].id = itemId
        items == FilterSeq(prev, {i \in Indices(prev) : prev[i].name # prev[hit].name}, 1)
    IN  /\ \E i \in Indices(prev) : prev[i].id = itemId
        /\ SetDays(upsertDay(nutritionDays, [meals |-> WithMeal(mealName, items)],
                             uid(1)))
        /\ Ran("removeFoodItem", NoDay, [mealName |-> mealName, itemId |-> itemId])
        /\ fault' = FALSE
        /\ UNCHANGED <<nutriDate, nextId, callVars, libVars, netVars>>
        /\ persistDays

removeFoodItem(mealName, itemId) ==
    LET prev == ItemsOf(MealAt(MealsOf(selectedDay), mealName))
        items == FilterSeq(prev, {i \in Indices(prev) : prev[i].id # itemId}, 1)
    IN  /\ \E i \in Indices(prev) : prev[i].id = itemId
        /\ SetDays(upsertDay(nutritionDays, [meals |-> WithMeal(mealName, items)],
                             uid(1)))
        /\ Ran("removeFoodItem", NoDay, [mealName |-> mealName, itemId |-> itemId])
        /\ fault' = FALSE
        /\ UNCHANGED <<nutriDate, nextId, callVars, libVars, netVars>>
        /\ persistDays

\* onChange of the weight input: upsertDay({ weight })
editWeight(v) ==
    LET used == IF IsNewDay(nutritionDays) THEN 1 ELSE 0
    IN  /\ nextId + used <= MaxIds
        /\ Coalesce(Member(selectedDay, "weight"), Empty) # v
        /\ SetDays(upsertDay(nutritionDays, [weight |-> v], uid(1)))
        /\ nextId' = nextId + used
        /\ Ran("editWeight", NoDay, [weight |-> v])
        /\ fault' = FALSE
        /\ UNCHANGED <<nutriDate, callVars, libVars, netVars>>
        /\ persistDays

\* onChange of the notes textarea: upsertDay({ notes })
editNotes(v) ==
    LET used == IF IsNewDay(nutritionDays) THEN 1 ELSE 0
    IN  /\ nextId + used <= MaxIds
        /\ selectedDay.notes # v
        /\ SetDays(upsertDay(nutritionDays, [notes |-> v], uid(1)))
        /\ nextId' = nextId + used
        /\ Ran("editNotes", NoDay, [notes |-> v])
        /\ fault' = FALSE
        /\ UNCHANGED <<nutriDate, callVars, libVars, netVars>>
        /\ persistDays

\* the button is rendered only when selectedDay.id is set
deleteDay ==
    LET dateISO == selectedDay.date
    IN  /\ selectedDay.id # NoId
        /\ nutritionDays' = FilterSeq(nutritionDays,
               {i \in Indices(nutritionDays) : nutritionDays[i].date # dateISO}, 1)
        /\ Ran("deleteDay", NoDay, [dateISO |-> dateISO])
        /\ fault' = FALSE
        /\ UNCHANGED <<nutriDate, nextId, callVars, libVars, netVars>>
        /\ persistDays

\* copyMealsFromPreviousDay without the deep clone: mealsCopy is prev.meals
\* itself, so the fresh ids are written into the source day as well
copyMealsFromPreviousDayAliased ==
    \E prev \in PrevDays(nutritionDays, isoDateFromInput(nutriDate)) :
        IF prev = NoDay
        THEN /\ Ran("copyMealsFromPreviousDay", NoDay, NoInput)
             /\ fault' = FALSE
             /\ UNCHANGED <<nutritionDays, nutriDate, nextId, callVars, libVars, netVars, storage>>
        ELSE LET clone == MealsOf(prev)
                 mealsCopy == [m \in DOMAIN clone |->
                                 [items |-> CopyItems(ItemsOf(clone[m]),
                                                      CountBefore(clone, MealIndex(m)))]]
                 used == CountAll(clone) + (IF IsNewDay(nutritionDays) THEN 1 ELSE 0)
             IN  IF MealNames \subseteq DOMAIN clone
                 THEN /\ nextId + used <= MaxIds
                      /\ \E ds \in upsertDay(nutritionDays, [meals |-> mealsCopy],
                                              uid(CountAll(clone) + 1)) :
                            nutritionDays' =
                                [i \in Indices(ds) |->
                                    IF ds[i] = prev THEN Spread(prev, [meals |-> mealsCopy])
                                    ELSE ds[i]]
                      /\ nextId' = nextId + used
                      /\ Ran("copyMealsFromPreviousDay", prev, NoInput)
                      /\ fault' = FALSE
                      /\ UNCHANGED <<nutriDate, callVars, libVars, netVars>>
                      /\ persistDays
                 ELSE /\ Ran("copyMealsFromPreviousDay", prev, NoInput)
                      /\ fault' = TRUE
                      /\ UNCHANGED <<nutritionDays, nutriDate, nextId, callVars, libVars, netVars, storage>>

copyMealsFromPreviousDay ==
    \E prev \in PrevDays(nutritionDays, isoDateFromInput(nutriDate)) :
        IF prev = NoDay
        THEN /\ Ran("copyMealsFromPreviousDay", NoDay, NoInput)
             /\ fault' = FALSE
             /\ UNCHANGED <<nutritionDays, nutriDate, nextId, callVars, libVars, netVars, storage>>
        ELSE LET clone == jsonClone(MealsOf(prev))
                 mealsCopy == [m \in DOMAIN clone |->
                                 [items |-> CopyItems(ItemsOf(clone[m]),
                                                      CountBefore(clone, MealIndex(m)))]]
                 used == CountAll(clone) + (IF IsNewDay(nutritionDays) THEN 1 ELSE 0)
             IN  IF MealNames \subseteq DOMAIN clone
                 THEN /\ nextId + used <= MaxIds
                      /\ SetDays(upsertDay(nutritionDays, [meals |-> mealsCopy],
                                           uid(CountAll(clone) + 1)))
                      /\ nextId' = nextId + used
                      /\ Ran("copyMealsFromPreviousDay", prev, NoInput)
                      /\ fault' = FALSE
                      /\ UNCHANGED <<nutriDate, callVars, libVars, netVars>>
                      /\ persistDays
                 ELSE \* mealsCopy[m] is undefined: reading .items throws
                      /\ Ran("copyMealsFromPreviousDay", prev, NoInput)
                      /\ fault' = TRUE
                      /\ UNCHANGED <<nutritionDays, nutriDate, nextId, callVars, libVars, netVars, storage>>

\* copyMealFromPreviousDay without "if (!prev) return": a missing prior day
\* reads as a day with no items
copyMealFromPreviousDayNoGuard(mealName, mode) ==
    \E prev \in PrevDays(nutritionDays, isoDateFromInput(nutriDate)) :
        LET src == IF prev = NoDay THEN <<>>
                   ELSE ItemsOf(MealAt(MealsOf(prev), mealName))
            prevMealItems == CopyItems(src, 0)
            current == ItemsOf(MealAt(MealsOf(selectedDay), mealName))
            items == IF mode = "append" THEN prevMealItems \o current
                     ELSE prevMealItems
            used == Len(src) + (IF IsNewDay(nutritionDays) THEN 1 ELSE 0)
        IN  /\ nextId + used <= MaxIds
            /\ SetDays(upsertDay(nutritionDays,
                                 [meals |-> WithMeal(mealName, items)],
                                 uid(Len(src) + 1)))
            /\ nextId' = nextId + used
            /\ Ran("copyMealFromPreviousDay", prev,
                   [mealName |-> mealName, mode |-> mode])
            /\ fault' = FALSE
            /\ UNCHANGED <<nutriDate, callVars, libVars, netVars>>
            /\ persistDays

\* copyMealFromPreviousDay with the append order reversed: [...current, ...copies]
copyMealFromPreviousDayAppendAfter(mealName, mode) ==
    \E prev \in PrevDays(nutritionDays, isoDateFromInput(nutriDate)) :
        IF prev = NoDay
        THEN /\ Ran("copyMealFromPreviousDay", NoDay,
                    [mealName |-> mealName, mode |-> mode])
             /\ fault' = FALSE
             /\ UNCHANGED <<nutritionDays, nutriDate, nextId, callVars, libVars, netVars, storage>>
        ELSE LET src == ItemsOf(MealAt(MealsOf(prev), mealName))
                 prevMealItems == CopyItems(src, 0)
                 current == ItemsOf(MealAt(MealsOf(selectedDay), mealName))
                 items == IF mode = "append" THEN current \o prevMealItems
                          ELSE prevMealItems
                 used == Len(src) + (IF IsNewDay(nutritionDays) THEN 1 ELSE 0)
             IN  /\ nextId + used <= MaxIds
                 /\ SetDays(upsertDay(nutritionDays,
                                      [meals |-> WithMeal(mealName, items)],
                                      uid(Len(src) + 1)))
                 /\ nextId' = nextId + used
                 /\ Ran("copyMealFromPreviousDay", prev,
                        [mealName |-> mealName, mode |-> mode])
                 /\ fault' = FALSE
                 /\ UNCHANGED <<nutriDate, callVars, libVars, netVars>>
                 /\ persistDays

copyMealFromPreviousDay(mealName, mode) ==
    \E prev \in PrevDays(nutritionDays, isoDateFromInput(nutriDate)) :
        IF prev = NoDay
        THEN /\ Ran("copyMealFromPreviousDay", NoDay,
                    [mealName |-> mealName, mode |-> mode])
             /\ fault' = FALSE
             /\ UNCHANGED <<nutritionDays, nutriDate, nextId, callVars, libVars, netVars, storage>>
        ELSE LET src == ItemsOf(MealAt(MealsOf(prev), mealName))
                 prevMealItems == CopyItems(src, 0)
                 current == ItemsOf(MealAt(MealsOf(selectedDay), mealName))
                 items == IF mode = "append" THEN prevMealItems \o current
                          ELSE prevMealItems
                 used == Len(src) + (IF IsNewDay(nutritionDays) THEN 1 ELSE 0)
             IN  /\ nextId + used <= MaxIds
                 /\ SetDays(upsertDay(nutritionDays,
                                      [meals |-> WithMeal(mealName, items)],
                                      uid(Len(src) + 1)))
                 /\ nextId' = nextId + used
                 /\ Ran("copyMealFromPreviousDay", prev,
                        [mealName |-> mealName, mode |-> mode])
                 /\ fault' = FALSE
                 /\ UNCHANGED <<nutriDate, callVars, libVars, netVars>>
                 /\ persistDays

(* Import *)

ImportItem(id, qty, calories) ==
    [id |-> id, name |-> "food", qty |-> qty, calories |-> calories,
     protein |-> Undef, carbs |-> Null, fat |-> Empty]

\* days an imported file may hold: no validation is done, so an item may be
\* un-normalized, a date may carry a time of day, meals may be partial or absent
ImportDayInputs ==
    {[id |-> -1, date |-> 0, notes |-> "", weight |-> Empty,
      meals |-> Spread(emptyMeals,
                       [m \in {"Breakfast"} |->
                           [items |-> <<ImportItem(-11, Num(150 * Scale),
                                                   Num(100 * Scale))>>]])],
     [id |-> -2, date |-> 1, notes |-> "", weight |-> Empty,
      meals |-> [m \in {"Lunch"} |->
                    [items |-> <<ImportItem(-12, Undef, Num(50 * Scale))>>]]],
     [id |-> -3, date |-> TicksPerDay, notes |-> "note", weight |-> Num(1410)]}

ImportDay(id) == CHOOSE d \in ImportDayInputs : d.id = id

\* a day as the conversion of the first storage format builds it: no weight,
\* and the totals then entered by hand kept under legacyTotals
LegacyDay ==
    [id |-> -4, date |-> 0, meals |-> emptyMeals, notes |-> "old",
     legacyTotals |-> [calories |-> Num(2000 * Scale), protein |-> Empty,
                       carbs |-> Empty, fat |-> Empty]]

\* a file holding a converted day
WriteFiles == {[nutritionDays |-> Arr(<<LegacyDay>>)]}

DEFAULT_EXERCISES ==
    <<[id |-> "ex_bench", name |-> "Bench Press", type |-> "Strength"],
      [id |-> "ex_squat", name |-> "Back Squat", type |-> "Strength"],
      [id |-> "ex_dead", name |-> "Deadlift", type |-> "Strength"],
      [id |-> "ex_row", name |-> "Seated Cable Row", type |-> "Resistance"],
      [id |-> "ex_lat", name |-> "Lat Pulldown", type |-> "Resistance"],
      [id |-> "ex_ohp", name |-> "Overhead Press", type |-> "Strength"],
      [id |-> "ex_legpress", name |-> "Leg Press", type |-> "Resistance"],
      [id |-> "ex_curl", name |-> "Biceps Curl", type |-> "Resistance"],
      [id |-> "ex_triceps", name |-> "Triceps Pushdown", type |-> "Resistance"],
      [id |-> "ex_plank", name |-> "Plank", type |-> "Balance"],
      [id |-> "ex_singleleg", name |-> "Single-leg Balance", type |-> "Balance"],
      [id |-> "ex_walk", name |-> "Walking", type |-> "Cardio"],
      [id |-> "ex_cycle", name |-> "Cycling", type |-> "Cardio"],
      [id |-> "ex_run", name |-> "Running", type |-> "Cardio"],
      [id |-> "ex_rower", name |-> "Rowing (Erg)", type |-> "Cardio"]>>

\* loadJSON("ft_macro_goals_v1", ...) on a fresh install
DefaultGoals == [calories |-> Empty, protein |-> Empty, carbs |-> Empty, fat |-> Empty]

\* the parsed file: an object that may hold the days under nutritionDays or
\* under nutrition; Undef when JSON.parse throws
ImportFiles ==
    {[nutritionDays |-> Arr(<<ImportDay(-2), ImportDay(-1)>>)],
     [nutrition |-> Arr(<<ImportDay(-3), ImportDay(-2)>>)],
     [nutritionDays |-> Arr(<<ImportDay(-1)>>)],
     [nutritionDays |-> Arr(<<>>)],
     [exportedAt |-> Text],
     Undef}

\* what a snapshot may hold under each of the keys import reads: an array, or
\* a value that is no array
SnapshotValues(k) ==
    CASE k = "exercises" ->
            {Arr(<<[id |-> "ex_import", name |-> "Imported", type |-> "Cardio"]>>),
             Arr(<<>>), Text}
      [] k = "workouts" -> {Arr(<<[id |-> "w_import", createdAt |-> 0]>>), Null}
      [] k = "nutritionDays" -> {Arr(<<ImportDay(-1)>>), Text, Null}
      [] k = "nutrition" -> {Arr(<<ImportDay(-3)>>)}

SnapshotKeys == {"exercises", "workouts", "nutritionDays", "nutrition"}

\* parsed snapshots with any subset of the keys; Undef when JSON.parse throws
SnapshotFiles ==
    UNION {{f \in [K -> UNION {SnapshotValues(k) : k \in SnapshotKeys}] :
                \A k \in K : f[k] \in SnapshotValues(k)} :
           K \in SUBSET SnapshotKeys}
    \cup {Undef}

\* importData that empties a collection the file does not hold
importDataClearsMissing(parsed) ==
    LET ex == IF parsed = Undef THEN Undef ELSE Member(parsed, "exercises")
        ws == IF parsed = Undef THEN Undef ELSE Member(parsed, "workouts")
        nd == IF parsed = Undef THEN Undef
              ELSE IF Truthy(Member(parsed, "nutritionDays"))
                   THEN Member(parsed, "nutritionDays")
              ELSE Member(parsed, "nutrition")
    IN  /\ exercises' = IF Truthy(ex) /\ isArray(ex) THEN ex.v ELSE <<>>
        /\ workouts' = IF Truthy(ws) /\ isArray(ws) THEN ws.v ELSE <<>>
        /\ nutritionDays' = IF Truthy(nd) /\ isArray(nd) THEN nd.v ELSE <<>>
        /\ Ran("importData", NoDay, [parsed |-> parsed])
        /\ fault' = FALSE
        /\ UNCHANGED <<nutriDate, nextId, callVars, macroGoals, netVars, activeWorkout>>
        /\ persist

\* reader.onload of importData; a file JSON.parse rejects (or that parses to
\* null) ends in the catch before any setter has run
importData(parsed) ==
    LET ex == IF parsed = Undef THEN Undef ELSE Member(parsed, "exercises")
        ws == IF parsed = Undef THEN Undef ELSE Member(parsed, "workouts")
        nd == IF parsed = Undef THEN Undef
              ELSE IF Truthy(Member(parsed, "nutritionDays"))
                   THEN Member(parsed, "nutritionDays")
              ELSE Member(parsed, "nutrition")
    IN  /\ exercises' = IF Truthy(ex) /\ isArray(ex) THEN ex.v ELSE exercises
        /\ workouts' = IF Truthy(ws) /\ isArray(ws) THEN ws.v ELSE workouts
        /\ nutritionDays' = IF Truthy(nd) /\ isArray(nd) THEN nd.v ELSE nutritionDays
        /\ Ran("importData", NoDay, [parsed |-> parsed])
        /\ fault' = FALSE
        /\ UNCHANGED <<nutriDate, nextId, callVars, macroGoals, netVars, activeWorkout>>
        /\ persist

(* Macro goals *)

\* what a goal input sends to onChange: the text typed
GoalInputs == {Empty, Num(150 * Scale)}

\* GoalInput's onChange: setMacroGoals((g) => ({ ...g, [k]: v }))
setMacroGoals(k, v) ==
    /\ macroGoals[k] # v
    /\ macroGoals' = [macroGoals EXCEPT ![k] = v]
    /\ Ran("setMacroGoals", NoDay, [key |-> k, value |-> v])
    /\ fault' = FALSE
    /\ UNCHANGED <<nutritionDays, nutriDate, nextId, callVars, exercises, workouts,
                   netVars, activeWorkout>>
    /\ persist

-----------------------------------------------------------------------------
(* Macros of a food of the database.  A nutrient name is a sequence of      *)
(* characters, so that lower-casing and substring search are computed.      *)

\* the decimal text of the number n/Scale, "95" for 95
Str(n) == [t |-> "text", n |-> n]

\* String(v) of a number or a string
String(v) == IF v.t = "number" THEN Str(v.n) ELSE v

LowerChar(c) ==
    CASE c = "E" -> "e" [] c = "P" -> "p" [] c = "R" -> "r" [] c = "O" -> "o"
      [] c = "T" -> "t" [] c = "I" -> "i" [] c = "N" -> "n" [] c = "F" -> "f"
      [] c = "C" -> "c" [] OTHER -> c

toLowerCase(s) == [i \in 1..Len(s) |-> LowerChar(s[i])]

includes(s, needle) ==
    \E i \in 0..(Len(s) - Len(needle)) : SubSeq(s, i + 1, i + Len(needle)) = needle

NeedleEnergy == <<"e", "n", "e", "r", "g", "y">>

NeedleProtein == <<"p", "r", "o", "t", "e", "i", "n">>

NeedleCarbohydrate == <<"c", "a", "r", "b", "o", "h", "y", "d", "r", "a", "t", "e">>

NeedleTotalLipid == <<"t", "o", "t", "a", "l", " ", "l", "i", "p", "i", "d">>

NeedleFat == <<"f", "a", "t">>

\* nutrient names as the database spells them
NameEnergy == <<"E", "n", "e", "r", "g", "y">>

NameProtein == <<"P", "R", "O", "T", "E", "I", "N">>

NameCarbohydrate == <<"C", "a", "r", "b", "o", "h", "y", "d", "r", "a", "t", "e">>

NameTotalLipid == <<"T", "o", "t", "a", "l", " ", "l", "i", "p", "i", "d", " ", "(", "f", "a", "t", ")">>

NameFattyAcids == <<"F", "a", "t", "t", "y", " ", "a", "c", "i", "d", "s">>

NameFiber == <<"F", "i", "b", "e", "r">>

\* entries of a food's foodNutrients
NutrientInputs ==
    {[nutrientName |-> NameEnergy, nutrientNumber |-> Str(208 * Scale), value |-> Num(52 * Scale)],
     [nutrientNumber |-> Str(208 * Scale), value |-> Num(95 * Scale)],
     [nutrientName |-> NameProtein, value |-> Null, amount |-> Num(3 * Scale)],
     [nutrientNumber |-> Str(203 * Scale), value |-> Empty],
     [nutrientName |-> NameCarbohydrate, nutrientNumber |-> Str(205 * Scale)],
     [nutrientName |-> NameFiber, nutrientNumber |-> Num(205 * Scale), amount |-> Num(7 * Scale)],
     [nutrientName |-> NameFattyAcids, nutrientNumber |-> Str(606 * Scale), value |-> Num(0)],
     [nutrientName |-> NameTotalLipid, nutrientNumber |-> Str(204 * Scale), value |-> Num(Scale \div 2)],
     [nutrientNumber |-> Num(204 * Scale), value |-> Num(0)]}

\* n?.nutrientName || ""
NutrientName(n) == IF "nutrientName" \in DOMAIN n THEN n["nutrientName"] ELSE <<>>

\* String(n?.nutrientNumber || "")
NutrientNumber(n) ==
    LET v == Member(n, "nutrientNumber")
    IN  String(IF Truthy(v) THEN v ELSE Empty)

\* list.find(pred) as a position in the list, 0 for undefined
FirstOf(positions) ==
    IF positions = {} THEN 0
    ELSE CHOOSE i \in positions : \A j \in positions : i <= j

\* find(needle) of extractMacrosFromFDC
find(list, needle) ==
    FirstOf({i \in 1..Len(list) : includes(toLowerCase(NutrientName(list[i])), needle)})

findNumber(list, number) ==
    FirstOf({i \in 1..Len(list) : NutrientNumber(list[i]) = Str(number * Scale)})

\* a || b on the found entries
OrFound(i, j) == IF i # 0 THEN i ELSE j

\* extractMacrosFromFDC with || for ?? on value and amount
extractMacrosFromFDCOr(food) ==
    LET fn == IF food = Undef THEN Undef ELSE Member(food, "foodNutrients")
        list == IF isArray(fn) THEN fn.v ELSE <<>>
        caloriesN == OrFound(find(list, NeedleEnergy), findNumber(list, 208))
        proteinN == OrFound(find(list, NeedleProtein), findNumber(list, 203))
        carbsN == OrFound(find(list, NeedleCarbohydrate), findNumber(list, 205))
        fatN == OrFound(OrFound(find(list, NeedleTotalLipid), find(list, NeedleFat)),
                        findNumber(list, 204))
        Or(a, b) == IF Truthy(a) THEN a ELSE b
        valueOf(i) == IF i = 0 THEN Empty
                      ELSE Or(Or(Member(list[i], "value"), Member(list[i], "amount")), Empty)
        text(v) == IF v = Empty THEN Empty ELSE String(v)
    IN  [calories |-> text(valueOf(caloriesN)), protein |-> text(valueOf(proteinN)),
         carbs |-> text(valueOf(carbsN)), fat |-> text(valueOf(fatN))]

extractMacrosFromFDC(food) ==
    LET fn == IF food = Undef THEN Undef ELSE Member(food, "foodNutrients")
        list == IF isArray(fn) THEN fn.v ELSE <<>>
        caloriesN == OrFound(find(list, NeedleEnergy), findNumber(list, 208))
        proteinN == OrFound(find(list, NeedleProtein), findNumber(list, 203))
        carbsN == OrFound(find(list, NeedleCarbohydrate), findNumber(list, 205))
        fatN == OrFound(OrFound(find(list, NeedleTotalLipid), find(list, NeedleFat)),
                        findNumber(list, 204))
        valueOf(i) == IF i = 0 THEN Empty
                      ELSE Coalesce(Coalesce(Member(list[i], "value"),
                                             Member(list[i], "amount")), Empty)
        text(v) == IF v = Empty THEN Empty ELSE String(v)
    IN  [calories |-> text(valueOf(caloriesN)), protein |-> text(valueOf(proteinN)),
         carbs |-> text(valueOf(carbsN)), fat |-> text(valueOf(fatN))]

-----------------------------------------------------------------------------
(* Workouts: the active workout and the history *)

\* the timestamps the date and time inputs give startWorkout, in time order
WorkoutTimes == {0, 1, 2}

\* the library entries the user picks: one resistance, one cardio
ExercisePicks == {DEFAULT_EXERCISES[1], DEFAULT_EXERCISES[14]}

\* the effect after a render in which only workouts changed
persistWorkouts == storage' = saveJSON(storage, "ft_workouts_v3", Arr(workouts'))

\* String(v ?? "").trim(); the texts of the model carry no blanks around them
TrimmedString(v) == String(Coalesce(v, Empty))

\* the Start Workout button, rendered when there is no active workout
startWorkout(ts) ==
    /\ activeWorkout = Null
    /\ nextId + 1 <= MaxWorkoutIds
    /\ activeWorkout' = [id |-> uid(1), createdAt |-> ts, entries |-> <<>>, notes |-> ""]
    /\ nextId' = nextId + 1
    /\ Ran("startWorkout", NoDay, [ts |-> ts])
    /\ fault' = FALSE
    /\ UNCHANGED <<nutritionDays, nutriDate, callVars, exercises, workouts, macroGoals,
                   netVars, storage>>

addEntryFromExercise(exercise) ==
    LET isCardio == exercise.type = "Cardio"
        used == IF isCardio THEN 1 ELSE 2
        entry == [id |-> uid(1), exerciseId |-> exercise.id,
                  exerciseName |-> exercise.name, exerciseType |-> exercise.type,
                  mode |-> IF isCardio THEN "cardio" ELSE "resistance",
                  sets |-> IF isCardio THEN <<>>
                           ELSE <<[id |-> uid(2), weight |-> Empty, reps |-> Empty]>>,
                  durationMin |-> Empty, isFreeText |-> FALSE]
    IN  /\ activeWorkout # Null
        /\ nextId + used <= MaxWorkoutIds
        /\ activeWorkout' = [activeWorkout EXCEPT !.entries = Append(@, entry)]
        /\ nextId' = nextId + used
        /\ Ran("addEntryFromExercise", NoDay, [exercise |-> exercise])
        /\ fault' = FALSE
        /\ UNCHANGED <<nutritionDays, nutriDate, callVars, exercises, workouts,
                       macroGoals, netVars, storage>>

\* the entry as saveWorkout stores it
SanitizedEntry(e) ==
    IF e.mode = "cardio"
    THEN [e EXCEPT !.durationMin = TrimmedString(e.durationMin), !.sets = <<>>]
    ELSE [e EXCEPT !.durationMin = Empty,
                   !.sets = [k \in Indices(e.sets) |->
                                [e.sets[k] EXCEPT !.weight = TrimmedString(@),
                                                  !.reps = TrimmedString(@)]]]

\* saveWorkout that puts the workout in front of the history without sorting
saveWorkoutUnsorted ==
    LET sanitized == [activeWorkout EXCEPT
                         !.entries = [i \in Indices(@) |-> SanitizedEntry(@[i])]]
    IN  /\ activeWorkout # Null
        /\ Len(workouts) < MaxWorkouts
        /\ workouts' = <<sanitized>> \o workouts
        /\ activeWorkout' = Null
        /\ Ran("saveWorkout", NoDay, NoInput)
        /\ fault' = FALSE
        /\ UNCHANGED <<nutritionDays, nutriDate, nextId, callVars, exercises,
                       macroGoals, netVars>>
        /\ persistWorkouts

saveWorkout ==
    LET sanitized == [activeWorkout EXCEPT
                         !.entries = [i \in Indices(@) |-> SanitizedEntry(@[i])]]
    IN  /\ activeWorkout # Null
        /\ Len(workouts) < MaxWorkouts
        /\ \E ws \in SortBy(<<sanitized>> \o workouts, "createdAtDesc") : workouts' = ws
        /\ activeWorkout' = Null
        /\ Ran("saveWorkout", NoDay, NoInput)
        /\ fault' = FALSE
        /\ UNCHANGED <<nutritionDays, nutriDate, nextId, callVars, exercises,
                       macroGoals, netVars>>
        /\ persistWorkouts

\* the Delete button of a row of the history, shown when no workout is active
deleteWorkout(workoutId) ==
    /\ activeWorkout = Null
    /\ \E i \in Indices(workouts) : workouts[i].id = workoutId
    /\ workouts' = FilterSeq(workouts,
                             {i \in Indices(workouts) : workouts[i].id # workoutId}, 1)
    /\ Ran("deleteWorkout", NoDay, [workoutId |-> workoutId])
    /\ fault' = FALSE
    /\ UNCHANGED <<nutritionDays, nutriDate, nextId, callVars, exercises, macroGoals,
                   netVars, activeWorkout>>
    /\ persistWorkouts

\* number of identities the copies of the entries before the i-th have used
RECURSIVE IdsBefore(_, _)
IdsBefore(entries, i) ==
    IF i <= 1 THEN 0
    ELSE IdsBefore(entries, i - 1) + 1 + Len(entries[i - 1].sets)

\* the copy of the i-th entry: e.id = uid(), every set id = uid()
CopiedEntry(entries, i) ==
    LET e == entries[i]
        base == IdsBefore(entries, i)
    IN  [e EXCEPT !.id = uid(base + 1),
                  !.sets = [k \in Indices(e.sets) |->
                               [e.sets[k] EXCEPT !.id = uid(base + 1 + k)]],
                  !.durationMin = IF Truthy(e.durationMin) THEN e.durationMin ELSE Empty]

\* "Copy last workout"
copyMostRecentWorkoutIntoActive ==
    IF activeWorkout = Null \/ workouts = <<>>
    THEN /\ Ran("copyMostRecentWorkoutIntoActive", NoDay, NoInput)
         /\ fault' = FALSE
         /\ UNCHANGED <<nutritionDays, nutriDate, nextId, callVars, libVars, netVars,
                        storage>>
    ELSE LET mostRecent == workouts[1]
             used == IdsBefore(mostRecent.entries, Len(mostRecent.entries) + 1)
         IN  /\ nextId + used <= MaxWorkoutIds
             /\ activeWorkout' =
                   [activeWorkout EXCEPT !.entries =
                       [i \in Indices(mostRecent.entries) |->
                           CopiedEntry(mostRecent.entries, i)]]
             /\ nextId' = nextId + used
             /\ Ran("copyMostRecentWorkoutIntoActive", mostRecent, NoInput)
             /\ fault' = FALSE
             /\ UNCHANGED <<nutritionDays, nutriDate, callVars, exercises, workouts,
                            macroGoals, netVars, storage>>

-----------------------------------------------------------------------------
(* Food search *)

\* what the search box may hold
QueryInputs == {"", " ", "banana", " rice "}

\* q.trim()
Trim(q) ==
    CASE q = " " -> ""
      [] q = " rice " -> "rice"
      [] OTHER -> q

\* `Food search failed (${status}).`
FailedText(status) ==
    CASE status = 400 -> "Food search failed (400)."
      [] status = 403 -> "Food search failed (403)."
      [] status = 500 -> "Food search failed (500)."
      [] status = 502 -> "Food search failed (502)."

\* a food of the database, as the search lists it
FdcFood(id) == [fdcId |-> id, description |-> "Banana"]

\* what fetch("/api/fdc/search") may settle with: a rejection, or a response
\* whose body is JSON (json |-> the parsed value) or is not (json |-> Undef)
SearchResponses ==
    {[kind |-> "network", message |-> "Failed to fetch"]}
    \cup {[kind |-> "http", ok |-> TRUE, status |-> 200, json |-> b] :
            b \in {[foods |-> Arr(<<FdcFood(1), FdcFood(2)>>)],
                   [foods |-> Arr(<<>>)],
                   [foods |-> Text],
                   [totalHits |-> Num(0)],
                   Undef}}
    \cup {[kind |-> "http", ok |-> FALSE, status |-> st, json |-> b] :
            st \in {400, 403, 500, 502},
            b \in {[error |-> "Unable to reach USDA FoodData Central."],
                   [error |-> ""],
                   [details |-> Text],
                   Undef}}

\* fdcSearch reading the failure off the payload without testing res.ok
fdcSearchNoStatusCheck(res) ==
    IF res.kind = "network" THEN [threw |-> TRUE, message |-> res.message]
    ELSE IF res.json = Undef
         THEN [threw |-> TRUE, message |-> "Unexpected token < in JSON"]
    ELSE [threw |-> FALSE, data |-> res.json]

\* fdcSearch once fetch has settled with res: what it returns or throws
fdcSearch(res) ==
    IF res.kind = "network" THEN [threw |-> TRUE, message |-> res.message]
    ELSE IF ~res.ok
         THEN LET payload == IF res.json = Undef THEN [none |-> TRUE] ELSE res.json
                  error == IF "error" \in DOMAIN payload THEN payload["error"] ELSE ""
              IN  [threw |-> TRUE,
                   message |-> IF error # "" THEN error ELSE FailedText(res.status)]
    ELSE IF res.json = Undef
         THEN [threw |-> TRUE, message |-> "Unexpected token < in JSON"]
    ELSE [threw |-> FALSE, data |-> res.json]

\* onChange of the search box
setQ(text) ==
    /\ search.q # text
    /\ search' = [search EXCEPT !.q = text]
    /\ Ran("setQ", NoDay, [q |-> text])
    /\ fault' = FALSE
    /\ UNCHANGED <<nutritionDays, nutriDate, nextId, callVars, libVars, proxy, storage>>

\* FoodSearch.run up to its await: an empty query returns at once.  latest
\* and fresh keep the order of issue, which the component does not: whether the
\* search issued last is in flight or answered, and whether what is displayed
\* was set by the answer to it
run ==
    LET query == Trim(search.q)
    IN  /\ IF query = "" THEN UNCHANGED search
           ELSE /\ Len(search.pending) < MaxSearches
                /\ search' = [search EXCEPT !.status = "loading", !.error = "",
                                             !.pending = Append(@, query),
                                             !.latest = "inflight", !.fresh = FALSE]
        /\ Ran("run", NoDay, [query |-> query])
        /\ fault' = FALSE
        /\ UNCHANGED <<nutritionDays, nutriDate, nextId, callVars, libVars, proxy, storage>>

\* FoodSearch.run from its await on: the i-th search in flight settles with res
runSettled(i, res) ==
    LET r == fdcSearch(res)
        foods == IF "foods" \in DOMAIN r.data /\ isArray(r.data["foods"])
                 THEN r.data["foods"].v ELSE <<>>
        rest == RemoveAt(search.pending, i)
        newest == search.latest = "inflight" /\ i = Len(search.pending)
        latest == IF newest THEN "answered" ELSE search.latest
    IN  /\ i \in 1..Len(search.pending)
        /\ IF r.threw
           THEN search' = [search EXCEPT !.status = "error",
                               !.error = IF r.message # "" THEN r.message
                                         ELSE "Search failed.",
                               !.pending = rest, !.latest = latest, !.fresh = newest]
           ELSE search' = [search EXCEPT !.results = foods, !.status = "idle",
                                         !.pending = rest, !.latest = latest,
                                         !.fresh = newest]
        /\ Ran("runSettled", NoDay, [query |-> search.pending[i], res |-> res])
        /\ fault' = FALSE
        /\ UNCHANGED <<nutritionDays, nutriDate, nextId, callVars, libVars, proxy, storage>>

-----------------------------------------------------------------------------
(* The lookup route in front of the food database *)

\* the search parameters of an incoming request's URL
RouteParams ==
    {[query |-> q] : q \in QueryInputs}
    \cup {[query |-> "banana", pageSize |-> p] :
            p \in {Empty, Text, Inf, Num(0), Num(-3 * Scale), Num((5 * Scale) \div 2),
                   Num(25 * Scale), Num(100 * Scale)}}
    \cup {[pageSize |-> Num(12 * Scale)]}

\* process.env of the server
RouteEnvs ==
    {[USDA_FDC_API_KEY |-> "KEY"], [USDA_FDC_API_KEY |-> ""], [NODE_ENV |-> "production"]}

\* what the fetch of the food database may settle with: a rejection, or a
\* response with a status, a content type and a body (Text: not JSON)
UpstreamResponses ==
    {[kind |-> "network"]}
    \cup {[kind |-> "http", ok |-> TRUE, status |-> 200, contentType |-> ct, body |-> b] :
            ct \in {"application/json", "text/html"},
            b \in {[foods |-> Arr(<<FdcFood(1)>>)], Text}}
    \cup {[kind |-> "http", ok |-> FALSE, status |-> st, contentType |-> ct, body |-> b] :
            st \in {400, 403, 500},
            ct \in {"application/json", "text/html"},
            b \in {[error |-> [code |-> "API_KEY_INVALID"]], Text}}

\* NextResponse.json(body, {status})
RouteResponse(status, body) == [status |-> status, body |-> body]

\* GET up to its await: the two refusals, else the one request upstream
GET(params, env) ==
    LET raw == IF "query" \in DOMAIN params THEN params["query"] ELSE ""
        query == Trim(raw)
        pageSizeRaw == IF Member(params, "pageSize") \in {Undef, Null, Empty}
                       THEN Num(12 * Scale) ELSE params["pageSize"]
        pageSize == Number(pageSizeRaw)
        apiKey == IF "USDA_FDC_API_KEY" \in DOMAIN env THEN env["USDA_FDC_API_KEY"] ELSE ""
        served == [pc |-> "done", params |-> params, env |-> env, calls |-> 0]
    IN  /\ proxy.pc \in {"idle", "done"}
        /\ proxy' =
             IF query = ""
             THEN served @@
                  [response |-> RouteResponse(400, [error |-> "Missing query parameter."])]
             ELSE IF apiKey = ""
             THEN served @@
                  [response |-> RouteResponse(500,
                                    [error |-> "Server is missing USDA_FDC_API_KEY."])]
             ELSE [pc |-> "fetching", params |-> params, env |-> env, calls |-> 1,
                   url |-> [api_key |-> apiKey, query |-> query,
                            pageSize |-> IF isFinite(pageSize)
                                         THEN Min(50 * Scale, Max(1 * Scale, pageSize.n))
                                         ELSE 12 * Scale]]
        /\ Ran("GET", NoDay, [params |-> params, env |-> env])
        /\ fault' = FALSE
        /\ UNCHANGED <<nutritionDays, nutriDate, nextId, callVars, libVars, search, storage>>

\* what GET answers once the fetch upstream has settled with up
RouteAnswer(up) ==
    LET isJson == up.contentType = "application/json"
        body == IF isJson THEN up.body ELSE Text
    IN  IF up.kind = "network" \/ (isJson /\ up.body = Text)
        THEN RouteResponse(502, [error |-> "Unable to reach USDA FoodData Central."])
        ELSE IF ~up.ok
        THEN RouteResponse(up.status, [error |-> FailedText(up.status), details |-> body])
        ELSE RouteResponse(200, body)

\* GET asking upstream a second time when the first request failed
GETSettledRetries(up) ==
    /\ proxy.pc = "fetching"
    /\ proxy' = IF RouteAnswer(up).status = 502 /\ proxy.calls < 2
                THEN [proxy EXCEPT !.calls = @ + 1]
                ELSE [proxy EXCEPT !.pc = "done"] @@
                     [upstream |-> up, response |-> RouteAnswer(up)]
    /\ Ran("GETSettled", NoDay, [up |-> up])
    /\ fault' = FALSE
    /\ UNCHANGED <<nutritionDays, nutriDate, nextId, callVars, libVars, search, storage>>

\* GET from its await on: the fetch upstream settles with up
GETSettled(up) ==
    /\ proxy.pc = "fetching"
    /\ proxy' = [proxy EXCEPT !.pc = "done"] @@
                [upstream |-> up, response |-> RouteAnswer(up)]
    /\ Ran("GETSettled", NoDay, [up |-> up])
    /\ fault' = FALSE
    /\ UNCHANGED <<nutritionDays, nutriDate, nextId, callVars, libVars, search, storage>>

-----------------------------------------------------------------------------
(* The application *)

\* FoodSearch as mounted: useState(""), "idle", "", []
NoSearch ==
    [q |-> "", status |-> "idle", error |-> "", results |-> <<>>, pending |-> <<>>,
     latest |-> "none", fresh |-> TRUE]

\* the route with no request to serve
NoRequest == [pc |-> "idle"]

NoCall == [kind |-> "none"]

NoRet == [fn |-> "none"]

\* a storage nothing was ever written to
FreshStorage == [mode |-> "ok", items |-> [k \in StorageKeys |-> Null], raised |-> FALSE]

\* what the browser may hold when the page is opened
StorageInputs ==
    {[mode |-> m, raised |-> FALSE,
      items |-> [k \in StorageKeys |->
                    CASE k = "ft_nutrition_v3" -> nd
                      [] k = "ft_macro_goals_v1" -> g
                      [] OTHER -> ws]] :
        m \in {"ok", "full", "denied"},
        nd \in {Null, Empty, Text, Json(Null), Json(Arr(<<>>)), Json(Arr(<<ImportDay(-1)>>))},
        g \in {Null, Json([DefaultGoals EXCEPT !.protein = Num(150 * Scale)])},
        ws \in {Null, Json(Arr(<<>>))}}
    \cup {[FreshStorage EXCEPT !.mode = "none"]}

Init ==
    /\ nutritionDays = <<>>
    /\ nutriDate \in Dates
    /\ nextId = 0
    /\ fault = FALSE
    /\ last = [op |-> "init", src |-> NoDay, input |-> NoInput]
    /\ arg = NoCall
    /\ ret = NoRet
    /\ exercises = DEFAULT_EXERCISES
    /\ workouts = <<>>
    /\ macroGoals = DefaultGoals
    /\ search = NoSearch
    /\ proxy = NoRequest
    /\ activeWorkout = Null
    /\ storage = SaveAll(FreshStorage, DEFAULT_EXERCISES, <<>>, <<>>, DefaultGoals)

\* the state after the page is opened on the storage pre: the four
\* collections are loaded, and the saving effects of the first render have run
InitStored ==
    \E pre \in StorageInputs :
        /\ exercises = loadJSON(pre, "ft_exercises_v3", Arr(DEFAULT_EXERCISES)).v
        /\ workouts = loadJSON(pre, "ft_workouts_v3", Arr(<<>>)).v
        /\ nutritionDays = loadJSON(pre, "ft_nutrition_v3", Arr(<<>>)).v
        /\ macroGoals = loadJSON(pre, "ft_macro_goals_v1", DefaultGoals)
        /\ storage = SaveAll(pre, exercises, workouts, nutritionDays, macroGoals)
        /\ last = [op |-> "mount", src |-> NoDay, input |-> [storage |-> pre]]
        /\ nutriDate \in Dates
        /\ nextId = 0
        /\ fault = FALSE
        /\ arg = NoCall
        /\ ret = NoRet
        /\ search = NoSearch
        /\ proxy = NoRequest
        /\ activeWorkout = Null
    /\ activeWorkout = Null

\* the page is opened again on the storage as it is
mount ==
    /\ exercises' = loadJSON(storage, "ft_exercises_v3", Arr(DEFAULT_EXERCISES)).v
    /\ workouts' = loadJSON(storage, "ft_workouts_v3", Arr(<<>>)).v
    /\ nutritionDays' = loadJSON(storage, "ft_nutrition_v3", Arr(<<>>)).v
    /\ macroGoals' = loadJSON(storage, "ft_macro_goals_v1", DefaultGoals)
    /\ search' = NoSearch
    /\ activeWorkout' = Null
    /\ Ran("mount", NoDay, [storage |-> storage])
    /\ fault' = FALSE
    /\ UNCHANGED <<nutriDate, nextId, callVars, proxy>>
    /\ persist

ItemIds(mealName) ==
    LET items == ItemsOf(MealAt(MealsOf(selectedDay), mealName))
    IN  {items[i].id : i \in Indices(items)}

NextMeals ==
    \/ \E d \in Dates : setNutriDate(d)
    \/ \E m \in MealInputs, item \in FormItems : addFoodToMeal(m, item)
    \/ \E m \in MealInputs : \E id \in ItemIds(m), p \in PatchInputs :
            updateFoodItem(m, id, p)
    \/ \E m \in MealInputs : \E id \in ItemIds(m) : removeFoodItem(m, id)
    \/ copyMealsFromPreviousDay
    \/ \E m \in MealInputs, mode \in {"replace", "append"} :
            copyMealFromPreviousDay(m, mode)

NextDays ==
    \/ \E d \in Dates : setNutriDate(d)
    \/ \E v \in WeightInputs : editWeight(v)
    \/ deleteDay
    \/ copyMealsFromPreviousDay
    \/ \E m \in MealInputs, mode \in {"replace", "append"} :
            copyMealFromPreviousDay(m, mode)
    \/ \E f \in ImportFiles : importData(f)

\* import of whole snapshots, and the goal inputs
NextImport ==
    \/ \E f \in SnapshotFiles : importData(f)
    \/ \E k \in {"calories", "protein"}, v \in GoalInputs : setMacroGoals(k, v)

\* the search box, the Search button and the searches in flight
NextSearch ==
    \/ \E text \in QueryInputs : setQ(text)
    \/ run
    \/ \E i \in 1..MaxSearches, res \in SearchResponses : runSettled(i, res)

\* requests coming in to the lookup route and its fetch settling
NextProxy ==
    \/ \E params \in RouteParams, env \in RouteEnvs : GET(params, env)
    \/ \E up \in UpstreamResponses : GETSettled(up)

\* every handler that writes to the selected day, each sending one value, and
\* the import of a converted day
NextWrites ==
    \/ \E d \in Dates : setNutriDate(d)
    \/ \E item \in FormItems : addFoodToMeal("Lunch", item)
    \/ editWeight(Num(1410))
    \/ editNotes("note")
    \/ copyMealsFromPreviousDay
    \/ copyMealFromPreviousDay("Lunch", "replace")
    \/ \E f \in WriteFiles : importData(f)

\* the workout builder and the history
NextWorkouts ==
    \/ \E ts \in WorkoutTimes : startWorkout(ts)
    \/ \E exercise \in ExercisePicks : addEntryFromExercise(exercise)
    \/ saveWorkout
    \/ \E i \in 1..MaxWorkouts : i <= Len(workouts) /\ deleteWorkout(workouts[i].id)
    \/ copyMostRecentWorkoutIntoActive

NextStorage ==
    \/ mount
    \/ \E v \in WeightInputs : editWeight(v)
    \/ deleteDay
    \/ \E k \in {"calories", "protein"}, v \in GoalInputs : setMacroGoals(k, v)

Next ==
    \/ NextMeals
    \/ mount
    \/ NextProxy
    \/ NextSearch
    \/ NextDays
    \/ NextImport
    \/ \E v \in NotesInputs : editNotes(v)
    \/ NextWorkouts

\* every handler, from a fresh install
Spec == Init /\ [][Next]_vars

\* the food-item and copy handlers alone, from an empty collection
SpecMeals == Init /\ [][NextMeals]_vars

\* the date, weight and delete handlers, the copy handlers and import
SpecDays == Init /\ [][NextDays]_vars

\* the writes to the selected day, over handled and imported days
SpecWrites == Init /\ [][NextWrites]_vars

\* workouts built and saved, from an empty history
SpecWorkouts == Init /\ [][NextWorkouts]_vars

\* import and the goal inputs alone
SpecImport == Init /\ [][NextImport]_vars

\* the page opened on any storage, then edits, deletions and reopenings
SpecStorage == InitStored /\ [][NextStorage]_vars

\* the food search box alone
SpecSearch == Init /\ [][NextSearch]_vars

\* the lookup route alone
SpecProxy == Init /\ [][NextProxy]_vars

-----------------------------------------------------------------------------
(* Direct calls of the pure helpers *)

RawItem(qty, calories, protein, carbs, fat) ==
    [id |-> NoId, name |-> "food", qty |-> qty, calories |-> calories,
     protein |-> protein, carbs |-> carbs, fat |-> fat]

QtyInputs ==
    {Undef, Null, Empty, Text, Inf, Num(-1 * Scale), Num(0), Num(10), Num(1 * Scale),
     Num(2 * Scale), Num(100 * Scale), Num(150 * Scale)}

MacroInputs ==
    {Undef, Null, Empty, Text, Inf, Num(0), Num(1), Num(50 * Scale), Num(100 * Scale)}

\* partial records handed to normalizeFoodItem
ItemInputs ==
    {RawItem(q, c, p, cb, f) : q \in QtyInputs, c \in MacroInputs,
                               p \in {Undef, Null, Num(25)},
                               cb \in {Null, Empty, Num(0)},
                               f \in {Undef, Text, Num(-5)}}

MacroProfiles ==
    {[calories |-> Num(100 * Scale), protein |-> Undef, carbs |-> Undef, fat |-> Undef],
     [calories |-> Num(50 * Scale), protein |-> Null, carbs |-> Empty, fat |-> Text],
     [calories |-> Num(1), protein |-> Num(3), carbs |-> Num(-1), fat |-> Num(25)],
     [calories |-> Empty, protein |-> Num(1), carbs |-> Num(7), fat |-> Inf]}

MealQtyInputs ==
    {Undef, Empty, Text, Num(-1 * Scale), Num(10), Num(1 * Scale), Num(2 * Scale),
     Num(150 * Scale)}

MealItemInputs ==
    {RawItem(q, m.calories, m.protein, m.carbs, m.fat) :
        q \in MealQtyInputs, m \in MacroProfiles}

RECURSIVE SeqsUpTo(_, _)
SeqsUpTo(S, n) ==
    IF n = 0 THEN {<<>>}
    ELSE LET shorter == SeqsUpTo(S, n - 1)
         IN  shorter \cup {Append(s, x) : s \in shorter, x \in S}

\* meals handed to calcMealTotals; Undef is the meal a day does not have
MealCallInputs ==
    {[items |-> s] : s \in SeqsUpTo(MealItemInputs, MaxMealItems)} \cup {Undef}

\* the meals of the days handed to calcDayTotals
DayMealInputs ==
    {[items |-> <<>>],
     [items |-> <<RawItem(Num(1 * Scale), Num(1), Num(3), Num(-1), Num(25))>>],
     [items |-> <<RawItem(Num(10), Num(3), Num(50 * Scale), Empty, Undef)>>],
     [items |-> <<RawItem(Undef, Num(100 * Scale), Num(1), Text, Num(7)),
                  RawItem(Num(150 * Scale), Num(5), Null, Num(1), Num(-3))>>]}

PartialMeals == UNION {[names -> DayMealInputs] : names \in SUBSET MealNames}

DayCallInputs ==
    {[id |-> -1, date |-> 0, notes |-> "", weight |-> Empty, meals |-> ms] :
        ms \in PartialMeals}
    \cup {[id |-> -1, date |-> 0, notes |-> "", weight |-> Empty]}

WeekDay(date, calories) ==
    [id |-> -1, date |-> isoDateFromInput(date), notes |-> "", weight |-> Empty,
     meals |-> Spread(emptyMeals,
                      [m \in {"Lunch"} |->
                          [items |-> <<RawItem(Num(1 * Scale), Num(calories * Scale),
                                               Num(3), Empty, Empty)>>]])]

WeekAnchors == {WeekDays, WeekDays + 1}

\* the calendar dates of the stored days: one before and one after each window
WeekDates == 0..(WeekDays + 1)

WeekCallInputs ==
    {[days |-> ds, anchorISO |-> isoDateFromInput(a)] :
        ds \in SeqsUpTo({WeekDay(d, c) : d \in WeekDates, c \in {100, 200}},
                        MaxWeekDays),
        a \in WeekAnchors}

\* a day without a date, which the timelines leave out
UndatedDay ==
    [id |-> -1, notes |-> "", weight |-> Empty, meals |-> emptyMeals]

\* a day that has no weight field
UnweighedDay ==
    [id |-> -1, date |-> isoDateFromInput(3), notes |-> "", meals |-> emptyMeals]

\* days of the histories handed to the timelines: two on one calendar date,
\* one with a weight, one without a date, one without a weight field, one
\* whose weight input holds a text that is no number
TimelineDayInputs ==
    {WeekDay(0, 100), WeekDay(1, 200), WeekDay(1, 50),
     [WeekDay(2, 50) EXCEPT !.weight = Num(1410)], UndatedDay,
     UnweighedDay, [WeekDay(4, 50) EXCEPT !.weight = Text]}

\* a history of ten days, one per calendar date 0..9, day d of d*d + 1 calories
TenDayHistory ==
    [i \in 1..10 |-> LET d == <<3, 9, 0, 5, 1, 8, 2, 7, 4, 6>>[i]
                     IN  WeekDay(d, d * d + 1)]

\* the Range select offers 7, 14, 30 and 90
TimelineCallInputs ==
    {[days |-> ds, range |-> n] :
        ds \in SeqsUpTo(TimelineDayInputs, MaxTimelineDays), n \in 0..MaxTimelineDays}
    \cup {[days |-> TenDayHistory, range |-> n] : n \in {7, 14}}

\* foods handed to extractMacrosFromFDC
FoodCallInputs ==
    {[fdcId |-> 1, foodNutrients |-> Arr(l)] : l \in SeqsUpTo(NutrientInputs, MaxNutrients)}
    \cup {[fdcId |-> 1], [fdcId |-> 1, foodNutrients |-> Text], Undef}

CallInputs ==
    {[kind |-> "food", food |-> f] : f \in FoodCallInputs} \cup
    {[kind |-> "timeline", timeline |-> t] : t \in TimelineCallInputs}
    \cup {[kind |-> "item", item |-> it] : it \in ItemInputs}
    \cup {[kind |-> "meal", meal |-> m] : m \in MealCallInputs}
    \cup {[kind |-> "day", day |-> d] : d \in DayCallInputs}
    \cup {[kind |-> "week", week |-> w] : w \in WeekCallInputs}

CallInit ==
    /\ nutritionDays = <<>>
    /\ nutriDate = 0
    /\ nextId = 0
    /\ fault = FALSE
    /\ last = [op |-> "init", src |-> NoDay, input |-> NoInput]
    /\ arg \in CallInputs
    /\ ret = NoRet
    /\ exercises = DEFAULT_EXERCISES
    /\ workouts = <<>>
    /\ macroGoals = DefaultGoals
    /\ search = NoSearch
    /\ proxy = NoRequest
    /\ activeWorkout = Null
    /\ storage = SaveAll(FreshStorage, DEFAULT_EXERCISES, <<>>, <<>>, DefaultGoals)

Returned(fn, out) == ret' = [fn |-> fn, out |-> out]

CallNormalizeFoodItem ==
    /\ arg.kind = "item"
    /\ ret = NoRet
    /\ Returned("normalizeFoodItem", normalizeFoodItem(arg.item))
    /\ UNCHANGED <<arg, appVars, libVars, netVars, storage>>

\* the result of normalizeFoodItem handed to normalizeFoodItem again, as
\* addFoodToMeal does with the form's item and MealSection with a stored one
CallNormalizeAgain ==
    /\ ret.fn = "normalizeFoodItem"
    /\ ret' = [fn |-> "normalizeFoodItem twice", first |-> ret.out,
               out |-> normalizeFoodItem(ret.out)]
    /\ UNCHANGED <<arg, appVars, libVars, netVars, storage>>

CallCalcMealTotals ==
    /\ arg.kind = "meal"
    /\ ret = NoRet
    /\ Returned("calcMealTotals", calcMealTotals(arg.meal))
    /\ UNCHANGED <<arg, appVars, libVars, netVars, storage>>

CallCalcDayTotals ==
    /\ arg.kind = "day"
    /\ ret = NoRet
    /\ Returned("calcDayTotals", calcDayTotals(arg.day))
    /\ UNCHANGED <<arg, appVars, libVars, netVars, storage>>

CallWeeklyAverages ==
    /\ arg.kind = "week"
    /\ ret = NoRet
    /\ Returned("WeeklyAverages", WeeklyAverages(arg.week.days, arg.week.anchorISO))
    /\ UNCHANGED <<arg, appVars, libVars, netVars, storage>>

\* the per-item amounts the reduce of calcMealTotals adds up
Contributions(meal) ==
    LET items == MapNormalize(ItemsOf(meal))
    IN  [i \in Indices(items) |-> AddItem(ZeroTotals, items[i])]

\* calcMealTotals before and after item i's qty q is replaced by 2q
CallDoubleQty(i) ==
    /\ arg.kind = "meal"
    /\ ret = NoRet
    /\ i \in Indices(ItemsOf(arg.meal))
    /\ LET q == arg.meal.items[i].qty
           doubled == [arg.meal EXCEPT !.items[i].qty = Num(2 * q.n)]
       IN  /\ q.t = "number"
           /\ QtyMin * Scale <= q.n
           /\ 2 * q.n <= QtyMax * Scale
           /\ ret' = [fn |-> "doubleQty", idx |-> i,
                      before |-> Contributions(arg.meal),
                      after |-> Contributions(doubled),
                      sumBefore |-> ReduceItems(MapNormalize(arg.meal.items), ZeroTotals),
                      sumAfter |-> ReduceItems(MapNormalize(doubled.items), ZeroTotals)]
    /\ UNCHANGED <<arg, appVars, libVars, netVars, storage>>

CallExtractMacrosFromFDC ==
    /\ arg.kind = "food"
    /\ ret = NoRet
    /\ Returned("extractMacrosFromFDC", extractMacrosFromFDC(arg.food))
    /\ UNCHANGED <<arg, appVars, libVars, netVars, storage>>

CallBuildMacroTimeline ==
    /\ arg.kind = "timeline"
    /\ ret = NoRet
    /\ \E out \in buildMacroTimeline(arg.timeline.days, arg.timeline.range) :
          Returned("buildMacroTimeline", out)
    /\ UNCHANGED <<arg, appVars, libVars, netVars, storage>>

CallWeightCaloriesChart ==
    /\ arg.kind = "timeline"
    /\ ret = NoRet
    /\ \E out \in WeightCaloriesChart(arg.timeline.days, arg.timeline.range) :
          Returned("WeightCaloriesChart", out)
    /\ UNCHANGED <<arg, appVars, libVars, netVars, storage>>

CallNext ==
    \/ CallExtractMacrosFromFDC
    \/ CallBuildMacroTimeline
    \/ CallWeightCaloriesChart
    \/ \E i \in 1..MaxMealItems : CallDoubleQty(i)
    \/ CallNormalizeFoodItem
    \/ CallNormalizeAgain
    \/ CallCalcMealTotals
    \/ CallCalcDayTotals
    \/ CallWeeklyAverages

\* the pure helpers, each called on an input drawn from CallInputs
CallSpec == CallInit /\ [][CallNext]_vars

-----------------------------------------------------------------------------
(* What the claims are stated with *)

Macros == {"calories", "protein", "carbs", "fat"}

Tenth == Scale \div 10

Abs(x) == IF x < 0 THEN -x ELSE x

\* the per-serving macro as a number: empty or non-numeric counts as 0
MacroValue(v) == IF v.t = "number" THEN v.n ELSE 0

\* the servings as a number: absent or empty counts as 1, a number is kept
\* within [QtyMin, QtyMax], anything else counts as 0
QtyValue(v) ==
    IF v \in {Undef, Null, Empty} THEN QtyDefault * Scale
    ELSE IF v.t # "number" THEN 0
    ELSE IF v.n < QtyMin * Scale THEN QtyMin * Scale
    ELSE IF v.n > QtyMax * Scale THEN QtyMax * Scale
    ELSE v.n

\* sum over the items of per-serving macro k x servings, at Scale^2
RECURSIVE RawMealSum(_, _, _)
RawMealSum(items, k, n) ==
    IF n = 0 THEN 0
    ELSE RawMealSum(items, k, n - 1) + MacroValue(items[n][k]) * QtyValue(items[n].qty)

\* the multiple of 1/unitsPerOne nearest to x/den, a tie going up, as a count
Nearest(x, den, unitsPerOne) ==
    LET base == (unitsPerOne * x) \div den
    IN  CHOOSE t \in (base - 1)..(base + 1) :
            /\ 2 * t * den - den <= 2 * unitsPerOne * x
            /\ 2 * unitsPerOne * x < 2 * t * den + den

\* x/den rounded to one decimal, at Scale
NearestTenth(x, den) == Tenth * Nearest(x, den, 10)

\* x/den rounded to an integer, at Scale
NearestInteger(x, den) == Scale * Nearest(x, den, 1)

IsScenarioMeal(meal) ==
    /\ Len(ItemsOf(meal)) = 2
    /\ meal.items[1].qty = Num(2 * Scale) /\ meal.items[1].calories = Num(100 * Scale)
    /\ meal.items[2].qty = Num(1 * Scale) /\ meal.items[2].calories = Num(50 * Scale)

\* C2: calcMealTotals returns, per macro, the one-decimal rounding of the sum
\* over the items of per-serving macro x clamped qty (empty or non-numeric
\* macro = 0, absent or empty qty = 1); no items or no meal gives zeros, and
\* [{qty:2, calories:100}, {qty:1, calories:50}] gives calories 250.0
MealTotalsAreRoundedSums ==
    ret.fn = "calcMealTotals" =>
        LET items == ItemsOf(arg.meal)
        IN  /\ \A k \in Macros :
                  ret.out[k] = NearestTenth(RawMealSum(items, k, Len(items)),
                                            Scale * Scale)
            /\ items = <<>> => ret.out = ZeroTotals
            /\ IsScenarioMeal(arg.meal) => ret.out.calories = 250 * Scale

MealTotalsScenarioReached ==
    /\ ret.fn = "calcMealTotals"
    /\ IsScenarioMeal(arg.meal)
    /\ ret.out.calories = 250 * Scale

\* the totals of meal m of a day, a meal the day lacks counting as empty
MealTotalsOf(day, m) ==
    IF "meals" \in DOMAIN day /\ m \in DOMAIN day.meals
    THEN calcMealTotals(day.meals[m]) ELSE ZeroTotals

SumOfMealTotals(day, k) ==
    MealTotalsOf(day, "Breakfast")[k] + MealTotalsOf(day, "Lunch")[k]
        + MealTotalsOf(day, "Dinner")[k] + MealTotalsOf(day, "Snack")[k]

ItemsOfMeal(day, m) ==
    IF "meals" \in DOMAIN day /\ m \in DOMAIN day.meals
    THEN ItemsOf(day.meals[m]) ELSE <<>>

AllItems(day) ==
    ItemsOfMeal(day, "Breakfast") \o ItemsOfMeal(day, "Lunch")
        \o ItemsOfMeal(day, "Dinner") \o ItemsOfMeal(day, "Snack")

\* C3: each macro of calcDayTotals equals the sum of calcMealTotals over the
\* four fixed meals to within 0.1, a missing meal counting as empty, and a day
\* with no logged items gives all zeros
DayTotalsAreSumOfMealTotals ==
    ret.fn = "calcDayTotals" =>
        /\ \A k \in Macros : Abs(ret.out[k] - SumOfMealTotals(arg.day, k)) <= Tenth
        /\ AllItems(arg.day) = <<>> => ret.out = ZeroTotals

DayWithMissingMealSummed ==
    /\ ret.fn = "calcDayTotals"
    /\ "meals" \in DOMAIN arg.day
    /\ DOMAIN arg.day.meals = {"Lunch", "Snack"}
    /\ MealTotalsOf(arg.day, "Lunch").calories > 0
    /\ MealTotalsOf(arg.day, "Snack").calories > 0
    /\ ret.out.calories
         = MealTotalsOf(arg.day, "Lunch").calories + MealTotalsOf(arg.day, "Snack").calories

\* the one-decimal rounding of the raw sum over all items of all four meals
RoundedRawDaySum(day, k) ==
    NearestTenth(RawMealSum(AllItems(day), k, Len(AllItems(day))), Scale * Scale)

\* C4 as claimed: each macro of calcDayTotals is within 0.1 of the one-decimal
\* rounding of the raw sum over all items of the four meals
DayTotalsWithinOneTenthOfRawSum ==
    ret.fn = "calcDayTotals" =>
        \A k \in Macros : Abs(ret.out[k] - RoundedRawDaySum(arg.day, k)) <= Tenth

\* C4 as amended: each macro of calcDayTotals is within 0.2 of the one-decimal
\* rounding of the raw sum over all items of the four meals
DayTotalsWithinTwoTenthsOfRawSum ==
    ret.fn = "calcDayTotals" =>
        \A k \in Macros : Abs(ret.out[k] - RoundedRawDaySum(arg.day, k)) <= 2 * Tenth

DayTotalsTwoTenthsOff ==
    /\ ret.fn = "calcDayTotals"
    /\ \E k \in Macros : Abs(ret.out[k] - RoundedRawDaySum(arg.day, k)) = 2 * Tenth

\* C5: replacing an item's qty q by 2q, both within [0,100], doubles what that
\* item adds to each of the four sums of calcMealTotals and leaves what the
\* other items add unchanged
DoublingQtyDoublesContribution ==
    ret.fn = "doubleQty" =>
        /\ \A k \in Macros : ret.after[ret.idx][k] = 2 * ret.before[ret.idx][k]
        /\ \A j \in Indices(ret.before) : j # ret.idx => ret.after[j] = ret.before[j]
        /\ \A k \in Macros :
              ret.sumAfter[k] - ret.sumBefore[k] = ret.before[ret.idx][k]

DoubledQtyReached ==
    /\ ret.fn = "doubleQty"
    /\ Len(ret.before) = 2
    /\ ret.before[ret.idx].calories > 0
    /\ ret.before[3 - ret.idx].calories > 0
    /\ ret.sumAfter.calories = ret.sumBefore.calories + ret.before[ret.idx].calories

\* C6: normalizeFoodItem returns qty 1 for an absent, null or empty qty and
\* otherwise the qty clamped to [0,100] (0 when it is no finite number), each
\* macro "" when absent or null and otherwise as given, every other field as
\* given; no input is rejected
NormalizerContract ==
    /\ arg.kind = "item" /\ ret = NoRet => ENABLED CallNormalizeFoodItem
    /\ ret.fn = "normalizeFoodItem" =>
          LET x == arg.item
              y == ret.out
          IN  /\ DOMAIN y = DOMAIN x
              /\ y.qty = Num(QtyValue(x.qty))
              /\ \A k \in Macros :
                    y[k] = IF x[k] = Undef \/ x[k] = Null THEN Empty ELSE x[k]
              /\ \A k \in DOMAIN x \ (Macros \cup {"qty"}) : y[k] = x[k]

NormalizedClampedItem ==
    /\ ret.fn = "normalizeFoodItem"
    /\ arg.item.qty = Num(150 * Scale) /\ ret.out.qty = Num(QtyMax * Scale)
    /\ arg.item.calories = Num(0) /\ ret.out.calories = Num(0)
    /\ arg.item.protein = Undef /\ ret.out.protein = Empty

\* C7: normalizeFoodItem is idempotent, field by field
NormalizerIdempotent ==
    ret.fn = "normalizeFoodItem twice" =>
        \A k \in DOMAIN ret.first : ret.out[k] = ret.first[k]

NormalizedTwice ==
    /\ ret.fn = "normalizeFoodItem twice"
    /\ arg.item.qty = Num(-1 * Scale)
    /\ arg.item.calories = Null
    /\ ret.first # arg.item
    /\ ret.out.qty = Num(0)

DatesOf(days) == {toISODateInput(days[i].date) : i \in Indices(days)}

\* no two days of the collection on one calendar date
OnePerDate(days) ==
    \A i, j \in Indices(days) : sameDayISO(days[i].date, days[j].date) => i = j

\* the calendar dates anchor-6 .. anchor
WeekWindow(anchorISO) ==
    (toISODateInput(anchorISO) - (WeekDays - 1))..toISODateInput(anchorISO)

\* macro k of calcDayTotals summed over the first n days that lie in the window
RECURSIVE SumInWindow(_, _, _, _)
SumInWindow(days, anchorISO, k, n) ==
    IF n = 0 THEN 0
    ELSE SumInWindow(days, anchorISO, k, n - 1)
         + (IF toISODateInput(days[n].date) \in WeekWindow(anchorISO)
            THEN calcDayTotals(days[n])[k] ELSE 0)

IsScenarioWeek(week) ==
    /\ Len(week.days) = 2
    /\ DatesOf(week.days) \subseteq WeekWindow(week.anchorISO)
    /\ calcDayTotals(week.days[1]).calories = 100 * Scale
    /\ calcDayTotals(week.days[2]).calories = 200 * Scale

\* C9: the weekly average is taken over exactly the 7 calendar dates
\* anchor-6 .. anchor; a date with no stored Day adds zero, a day outside the
\* range adds nothing, and each sum is divided by 7 (calories rounded to an
\* integer, the others to one decimal); two days of 100 and 200 calories in
\* the week average 43
WeeklyAverageOverSevenDays ==
    ret.fn = "WeeklyAverages" /\ OnePerDate(arg.week.days) =>
        LET days == arg.week.days
            a == arg.week.anchorISO
            Sum(k) == SumInWindow(days, a, k, Len(days))
        IN  /\ Cardinality(WeekWindow(a)) = 7
            /\ ret.out.calories = NearestInteger(Sum("calories"), 7 * Scale)
            /\ \A k \in Macros \ {"calories"} :
                  ret.out[k] = NearestTenth(Sum(k), 7 * Scale)
            /\ IsScenarioWeek(arg.week) => ret.out.calories = 43 * Scale

WeeklyAverageScenarioReached ==
    /\ ret.fn = "WeeklyAverages"
    /\ OnePerDate(arg.week.days)
    /\ IsScenarioWeek(arg.week)
    /\ ret.out.calories = 43 * Scale

\* C1: in every reachable state of the collection at most one Day exists per
\* calendar date (dates equal when year, month and day match), import included
OneDayPerDate == OnePerDate(nutritionDays)

\* every item stored in the collection, with the meal that holds it
StoredItems ==
    UNION {UNION {{nutritionDays[i].meals[m].items[k] :
                      k \in Indices(ItemsOf(nutritionDays[i].meals[m]))} :
                  m \in DOMAIN MealsOf(nutritionDays[i])} :
           i \in Indices(nutritionDays)}

\* the item a row edit has written, as stored on the selected day
EditedItems ==
    LET items == ItemsOf(MealAt(MealsOf(selectedDay), last.input.mealName))
    IN  {items[k] : k \in {j \in Indices(items) : items[j].id = last.input.itemId}}

\* C8: from an empty collection, after any sequence of addFoodToMeal,
\* updateFoodItem, removeFoodItem and the two copy-forward operations, every
\* stored item has a numeric qty within [0, 100]; an edit that sets qty above
\* 100 stores 100, below 0 stores 0, and to the empty string stores 1
StoredQtyWithinRange ==
    /\ \A it \in StoredItems :
          /\ it.qty.t = "number"
          /\ 0 <= it.qty.n
          /\ it.qty.n <= 100 * Scale
    /\ last.op = "updateFoodItem" =>
          LET typed == last.input.patch.qty
          IN  /\ EditedItems # {}
              /\ \A it \in EditedItems :
                    /\ typed.t = "number" /\ typed.n > 100 * Scale
                          => it.qty = Num(100 * Scale)
                    /\ typed.t = "number" /\ typed.n < 0 => it.qty = Num(0)
                    /\ typed = Empty => it.qty = Num(1 * Scale)

EditAboveRangeStored ==
    /\ last.op = "updateFoodItem"
    /\ last.input.patch.qty = Num(150 * Scale)
    /\ \E it \in EditedItems : it.qty = Num(100 * Scale)
    /\ \E it \in StoredItems : it.qty = Num(0)
    /\ \E it \in StoredItems : it.qty = Num(1 * Scale)

CopyOps == {"copyMealsFromPreviousDay", "copyMealFromPreviousDay"}

\* positions of the stored days whose calendar date is before the selected date
PriorDays ==
    {i \in Indices(nutritionDays) : toISODateInput(nutritionDays[i].date) < nutriDate}

\* C10: the source day both copy-forward operations choose is the Day with the
\* maximum date among the Days whose calendar date is strictly before the
\* target date, never the target date or a later one; none is chosen when no
\* such Day exists
CopySourceIsMostRecentPriorDay ==
    last.op \in CopyOps =>
        IF PriorDays = {} THEN last.src = NoDay
        ELSE /\ \E i \in PriorDays : nutritionDays[i] = last.src
             /\ \A j \in PriorDays : nutritionDays[j].date <= last.src.date

CopiedFromLatestOfSeveral ==
    /\ last.op \in CopyOps
    /\ last.src # NoDay
    /\ \E j \in PriorDays : nutritionDays[j].date < last.src.date
    /\ \E i \in Indices(nutritionDays) : i \notin PriorDays

\* C11: with no Day on a calendar date before the selected date, both copy
\* handlers (either mode) leave the collection as it was; no Day is created
\* for the selected date
CopyWithoutPriorDayIsNoOp ==
    [][last'.op \in CopyOps /\ PriorDays = {} =>
          /\ nutritionDays' = nutritionDays
          /\ fault' = FALSE]_vars

CopiedNothingOntoEmptyDate ==
    /\ last.op \in CopyOps
    /\ last.src = NoDay
    /\ PriorDays = {}
    /\ nutritionDays # <<>>
    /\ selectedDay.id = NoId

\* C12: a copy leaves its source Day as it was: after either copy handler the
\* collection still holds, for the Day it copied from, a Day with that id
\* that equals it in every field (date, notes, weight, meals, items)
CopyLeavesSourceUnchanged ==
    [][last'.op \in CopyOps /\ last'.src # NoDay =>
          /\ \E i \in Indices(nutritionDays) : nutritionDays[i] = last'.src
          /\ \E j \in Indices(nutritionDays') : nutritionDays'[j].id = last'.src.id
          /\ \A j \in Indices(nutritionDays') :
                nutritionDays'[j].id = last'.src.id => nutritionDays'[j] = last'.src]_vars

CopiedItemsFromSource ==
    /\ last.op \in CopyOps
    /\ last.src # NoDay
    /\ fault = FALSE
    /\ \E i \in Indices(nutritionDays) : nutritionDays[i] = last.src
    /\ \E m \in MealNames : ItemsOf(MealAt(MealsOf(last.src), m)) # <<>>
    /\ selectedDay.id # NoId
    /\ selectedDay # last.src

\* the ids of the items of a day, over all its meals
ItemIdsOfDay(day) ==
    UNION {{ItemsOf(MealsOf(day)[m])[k].id : k \in Indices(ItemsOf(MealsOf(day)[m]))} :
           m \in DOMAIN MealsOf(day)}

\* C13: copy-all-meals gives each of the four meals of the selected day as
\* many items as the source meal has, in the same order; each copy has a
\* fresh id (not an id of the source, not the id of another copy) and every
\* other field equal to the source item's field
CopyAllMealsPreservesItems ==
    last.op = "copyMealsFromPreviousDay" /\ last.src # NoDay =>
        /\ fault = FALSE
        /\ \A m \in MealNames :
              LET s == ItemsOf(MealAt(MealsOf(last.src), m))
                  c == ItemsOf(MealAt(MealsOf(selectedDay), m))
              IN  /\ Len(c) = Len(s)
                  /\ \A i \in Indices(s) :
                        /\ DOMAIN c[i] = DOMAIN s[i]
                        /\ \A k \in DOMAIN s[i] \ {"id"} : c[i][k] = s[i][k]
                        /\ c[i].id \notin ItemIdsOfDay(last.src)
        /\ \A m1, m2 \in MealNames :
              LET c1 == ItemsOf(MealAt(MealsOf(selectedDay), m1))
                  c2 == ItemsOf(MealAt(MealsOf(selectedDay), m2))
              IN  \A i \in Indices(c1), j \in Indices(c2) :
                      c1[i].id = c2[j].id => m1 = m2 /\ i = j

\* what a copy of item s must be: another id, the same name, the servings and
\* the macros that s counts for
IsCopyOf(c, s) ==
    /\ c.id # s.id
    /\ c.name = s.name
    /\ c.qty = Num(QtyValue(s.qty))
    /\ \A k \in Macros : MacroValue(c[k]) = MacroValue(s[k])

\* C14: with a prior day, copyMealFromPreviousDay in "append" mode leaves the
\* destination meal with the copies of the source meal's items, in source
\* order, followed by the destination's previous items unchanged (length =
\* previous length + source length); in "replace" mode the meal holds exactly
\* the copies (length = source length)
CopyOneMealAppendsOrReplaces ==
    [][last'.op = "copyMealFromPreviousDay" /\ last'.src # NoDay =>
          \A m \in {last'.input.mealName} :
          \A src \in {ItemsOf(MealAt(MealsOf(last'.src), m))},
             before \in {ItemsOf(MealAt(MealsOf(selectedDay), m))},
             after \in {ItemsOf(MealAt(MealsOf(selectedDay'), m))} :
          \A kept \in {IF last'.input.mode = "append" THEN before ELSE <<>>} :
              /\ Len(after) = Len(src) + Len(kept)
              /\ \A i \in Indices(src) : IsCopyOf(after[i], src[i])
              /\ \A i \in Indices(kept) : after[Len(src) + i] = kept[i]]_vars

AppendedAheadOfExistingItems ==
    /\ last.op = "copyMealFromPreviousDay"
    /\ last.input.mode = "append"
    /\ last.src # NoDay
    /\ LET src == ItemsOf(MealAt(MealsOf(last.src), last.input.mealName))
           now == ItemsOf(MealAt(MealsOf(selectedDay), last.input.mealName))
       IN  /\ Len(src) >= 1
           /\ Len(now) > Len(src)
           /\ IsCopyOf(now[1], src[1])

\* C15: no core operation raises a fault, whatever Day is stored: a Day
\* without meals, or with some of the four meals missing, is handled with
\* the missing meals counted as empty
CoreOperationsTotal ==
    /\ fault = FALSE
    /\ \A i \in Indices(nutritionDays) :
          \A k \in Macros : calcDayTotals(nutritionDays[i])[k] >= 0

\* positions of the days of a history that have a date
Dated(days) == {i \in Indices(days) : "date" \in DOMAIN days[i]}

\* what a timeline entry says of the day it stands for: its date and totals
DayOfEntry(e) ==
    [iso |-> e.iso, calories |-> e.calories, protein |-> e.protein,
     carbs |-> e.carbs, fat |-> e.fat]

\* the same of a stored day, from calcDayTotals
EntryOfDay(d) ==
    LET t == calcDayTotals(d)
    IN  [iso |-> d.date, calories |-> t.calories, protein |-> t.protein,
         carbs |-> t.carbs, fat |-> t.fat]

\* C16: for a history with n >= rangeLimit >= 1 dated days,
\* buildMacroTimeline returns exactly rangeLimit entries, ascending by date,
\* each a dated day of the history with that day's calcDayTotals, and every
\* dated day left out is no later than the earliest entry; a day without a
\* date is never an entry; of ten days with rangeLimit 7 the 7 latest come back
TimelineHoldsLatestDaysAscending ==
    ret.fn = "buildMacroTimeline" =>
        LET days == arg.timeline.days
            n == arg.timeline.range
            out == ret.out
            InOut(e) == Cardinality({i \in Indices(out) : DayOfEntry(out[i]) = e})
            InDays(e) == Cardinality({i \in Dated(days) : EntryOfDay(days[i]) = e})
        IN  n >= 1 /\ Cardinality(Dated(days)) >= n =>
                /\ Len(out) = n
                /\ \A i, j \in Indices(out) : i < j => out[i].iso <= out[j].iso
                /\ \A i \in Indices(out) :
                      InOut(DayOfEntry(out[i])) <= InDays(DayOfEntry(out[i]))
                /\ \A k \in Dated(days) :
                      days[k].date > out[1].iso =>
                          InOut(EntryOfDay(days[k])) = InDays(EntryOfDay(days[k]))
                /\ days = TenDayHistory /\ n = 7 =>
                      [i \in 1..7 |-> out[i].iso]
                          = [i \in 1..7 |-> isoDateFromInput(i + 2)]

TimelineOfTenDaysReached ==
    /\ ret.fn = "buildMacroTimeline"
    /\ arg.timeline.days = TenDayHistory
    /\ arg.timeline.range = 7
    /\ Len(ret.out) = 7
    /\ ret.out[1].iso = isoDateFromInput(3)
    /\ ret.out[7].iso = isoDateFromInput(9)

\* the calories of entries from..to of a series, summed
RECURSIVE CaloriesSum(_, _, _)
CaloriesSum(series, from, to) ==
    IF from > to THEN 0 ELSE series[from].calories + CaloriesSum(series, from + 1, to)

\* C17: in the weight/calories series, truncated to the range, the rolling
\* average of entry i is the one-decimal rounding of the mean calories of
\* the entries from six places before i (or from the first entry) up to i, at
\* most 7 entries of the truncated series; the first entry's average is its
\* own calories, whatever days the history holds before the range
RollingAverageOverTruncatedSeries ==
    ret.fn = "WeightCaloriesChart" =>
        LET out == ret.out
            n == arg.timeline.range
        IN  /\ n >= 1 => Len(out) <= n
            /\ \A i \in Indices(out) :
                  LET from == IF i - 6 < 1 THEN 1 ELSE i - 6
                      count == i - from + 1
                  IN  /\ count <= 7
                      /\ out[i].caloriesAvg7 =
                            NearestTenth(CaloriesSum(out, from, i), count * Scale)
            /\ out # <<>> => out[1].caloriesAvg7 = out[1].calories

FirstEntryAveragesItselfReached ==
    /\ ret.fn = "WeightCaloriesChart"
    /\ arg.timeline.days = TenDayHistory
    /\ arg.timeline.range = 7
    /\ Len(ret.out) = 7
    /\ ret.out[1].iso = isoDateFromInput(3)
    /\ ret.out[1].calories = 10 * Scale
    /\ ret.out[1].caloriesAvg7 = 10 * Scale

\* the snapshot p holds an array under key k
HoldsArray(p, k) == p # Undef /\ k \in DOMAIN p /\ p[k].t = "array"

\* C18: import replaces each of exercises, workouts and nutrition days with
\* the snapshot's array exactly when the snapshot holds that key with an
\* array value, and leaves it untouched when the key is absent or no array;
\* an unparsable file changes none; the macro goals never change
ImportReplacesExactlyPresentArrays ==
    [][last'.op = "importData" =>
          LET p == last'.input.parsed
          IN  /\ exercises' = IF HoldsArray(p, "exercises")
                              THEN p["exercises"].v ELSE exercises
              /\ workouts' = IF HoldsArray(p, "workouts")
                             THEN p["workouts"].v ELSE workouts
              /\ nutritionDays' = IF HoldsArray(p, "nutritionDays")
                                  THEN p["nutritionDays"].v ELSE nutritionDays
              /\ macroGoals' = macroGoals]_vars

\* the key of the snapshot p that import reads the nutrition days from:
\* nutritionDays, or nutrition when nutritionDays is absent, null or empty
DaysKey(p) ==
    IF p # Undef /\ "nutritionDays" \in DOMAIN p
       /\ p["nutritionDays"] \notin {Null, Empty, Num(0)}
    THEN "nutritionDays" ELSE "nutrition"

\* C18 as the code has it: as above for exercises and workouts; the nutrition
\* days are replaced exactly when the snapshot holds an array under
\* nutritionDays or, with no usable nutritionDays value, under nutrition
ImportReplacesPresentArraysOrLegacyKey ==
    [][last'.op = "importData" =>
          LET p == last'.input.parsed
          IN  /\ exercises' = IF HoldsArray(p, "exercises")
                              THEN p["exercises"].v ELSE exercises
              /\ workouts' = IF HoldsArray(p, "workouts")
                             THEN p["workouts"].v ELSE workouts
              /\ nutritionDays' = IF HoldsArray(p, DaysKey(p))
                                  THEN p[DaysKey(p)].v ELSE nutritionDays
              /\ macroGoals' = macroGoals]_vars

ImportedUnderLegacyKey ==
    /\ last.op = "importData"
    /\ last.input.parsed # Undef
    /\ DOMAIN last.input.parsed = {"workouts", "nutrition"}
    /\ last.input.parsed["workouts"] = Null
    /\ nutritionDays = last.input.parsed["nutrition"].v
    /\ exercises # DEFAULT_EXERCISES
    /\ workouts # <<>>
    /\ macroGoals # DefaultGoals

\* the search settled with a failure: the network was unreachable or the
\* response had a non-success status
SearchFailed(res) == res.kind = "network" \/ (res.kind = "http" /\ ~res.ok)

\* C19: when a food search fails, the failure is caught: the search box ends
\* in status "error" with a non-empty message, the result list it showed is
\* unchanged, and the nutrition-day collection is unchanged
FailedSearchLeavesStateUntouched ==
    [][last'.op = "runSettled" /\ SearchFailed(last'.input.res) =>
          /\ fault' = FALSE
          /\ search'.status = "error"
          /\ search'.error # ""
          /\ search'.results = search.results
          /\ nutritionDays' = nutritionDays]_vars

FailedSearchKeptResults ==
    /\ last.op = "runSettled"
    /\ SearchFailed(last.input.res)
    /\ last.input.res.kind = "http"
    /\ search.status = "error"
    /\ search.error = FailedText(last.input.res.status)
    /\ search.results # <<>>

\* the request carries no query, or one that trims to nothing
QueryBlank(params) == "query" \notin DOMAIN params \/ params["query"] \in {"", " "}

\* the server has no API key
KeyMissing(env) == "USDA_FDC_API_KEY" \notin DOMAIN env \/ env["USDA_FDC_API_KEY"] = ""

\* the request upstream failed: no response, or a non-success status
UpstreamFailed(up) == up.kind = "network" \/ ~up.ok

\* C20: for every incoming request the route asks the food database at most
\* once and never retries: not at all when the trimmed query is empty
\* (answering 400) or the API key is missing (answering 500), and after an
\* upstream non-success status or a network failure it answers with an error
\* (the upstream status, or 502) having asked once
RouteAsksUpstreamAtMostOnce ==
    proxy.pc # "idle" =>
        /\ proxy.calls <= 1
        /\ QueryBlank(proxy.params) =>
               proxy.pc = "done" /\ proxy.calls = 0 /\ proxy.response.status = 400
        /\ ~QueryBlank(proxy.params) /\ KeyMissing(proxy.env) =>
               proxy.pc = "done" /\ proxy.calls = 0 /\ proxy.response.status = 500
        /\ proxy.pc = "done" /\ proxy.calls > 0 /\ UpstreamFailed(proxy.upstream) =>
               /\ proxy.calls = 1
               /\ "error" \in DOMAIN proxy.response.body
               /\ IF proxy.upstream.kind = "network"
                  THEN proxy.response.status = 502
                  ELSE proxy.response.status \in {proxy.upstream.status, 502}

UpstreamStatusPassedOn ==
    /\ proxy.pc = "done"
    /\ proxy.calls = 1
    /\ proxy.upstream.kind = "http"
    /\ proxy.upstream.status = 403
    /\ proxy.response.status = 403

\* C21: the pageSize the route forwards upstream is always an integer within
\* [1,50]: 12 when the parameter is absent, empty or not a finite number, and
\* otherwise the requested value clamped to [1,50]
ForwardedPageSizeIsClampedInteger ==
    proxy.pc # "idle" /\ proxy.calls = 1 =>
        LET raw == Member(proxy.params, "pageSize")
            sent == proxy.url.pageSize
        IN  /\ sent % Scale = 0
            /\ 1 * Scale <= sent /\ sent <= 50 * Scale
            /\ raw \in {Undef, Empty} \/ raw.t # "number" => sent = 12 * Scale
            /\ raw.t = "number" =>
                   sent = IF raw.n < 1 * Scale THEN 1 * Scale
                          ELSE IF raw.n > 50 * Scale THEN 50 * Scale
                          ELSE raw.n

\* the nutrient list of the food handed to extractMacrosFromFDC
ExtractedList ==
    IF arg.food # Undef /\ isArray(Member(arg.food, "foodNutrients"))
    THEN arg.food["foodNutrients"].v ELSE <<>>

Keywords(m) ==
    CASE m = "calories" -> {NeedleEnergy}
      [] m = "protein" -> {NeedleProtein}
      [] m = "carbs" -> {NeedleCarbohydrate}
      [] m = "fat" -> {NeedleTotalLipid, NeedleFat}

StandardNumber(m) ==
    CASE m = "calories" -> 208 [] m = "protein" -> 203 [] m = "carbs" -> 205 [] m = "fat" -> 204

\* positions of the entries whose name contains one of the keywords, whatever the case
NamedEntries(list, keywords) ==
    {i \in 1..Len(list) :
        \E kw \in keywords : includes(toLowerCase(NutrientName(list[i])), kw)}

NumberedEntries(list, m) ==
    {i \in 1..Len(list) : NutrientNumber(list[i]) = Str(StandardNumber(m) * Scale)}

\* the first named entry, else the first numbered entry, else 0
PickedEntry(list, named, m) ==
    IF named # {} THEN FirstOf(named) ELSE FirstOf(NumberedEntries(list, m))

\* the entry's value, else its amount
ValueElseAmount(n) ==
    IF Member(n, "value") \notin {Undef, Null} THEN n["value"] ELSE Member(n, "amount")

ExampleFood == [fdcId |-> 1, foodNutrients |-> Arr(<<[nutrientNumber |-> Str(208 * Scale), value |-> Num(95 * Scale)]>>)]

\* C22 as stated: each macro is the string form of the value (else amount) of
\* the first entry whose name contains the macro's keyword (energy, protein,
\* carbohydrate, total lipid or fat), else of the first entry with the
\* macro's standard number; "" when neither is found, "0" for a found 0; the
\* food with the single entry {nutrientNumber "208", value 95} has calories "95"
MacrosOfFirstMatchingEntry ==
    ret.fn = "extractMacrosFromFDC" =>
        /\ \A m \in Macros :
              LET list == ExtractedList
                  pick == PickedEntry(list, NamedEntries(list, Keywords(m)), m)
              IN  /\ pick = 0 => ret.out[m] = Empty
                  /\ pick # 0 /\ ValueElseAmount(list[pick]) \notin {Undef, Null} =>
                        ret.out[m] = String(ValueElseAmount(list[pick]))
                  /\ pick # 0 /\ ValueElseAmount(list[pick]) = Num(0) => ret.out[m] = Str(0)
        /\ arg.food = ExampleFood => ret.out.calories = Str(95 * Scale)

\* for fat a name with "total lipid" is looked for first, a name with "fat" after
NamedEntriesInTurn(list, m) ==
    IF m = "fat" /\ NamedEntries(list, {NeedleTotalLipid}) # {}
    THEN NamedEntries(list, {NeedleTotalLipid})
    ELSE NamedEntries(list, Keywords(m))

\* C22 amended: as stated, except that for fat the first entry named "total
\* lipid" comes before any entry named "fat", and that a found entry with
\* neither value nor amount yields ""
MacrosOfFirstMatchingEntryInTurn ==
    ret.fn = "extractMacrosFromFDC" =>
        /\ \A m \in Macros :
              LET list == ExtractedList
                  pick == PickedEntry(list, NamedEntriesInTurn(list, m), m)
              IN  /\ pick = 0 => ret.out[m] = Empty
                  /\ pick # 0 =>
                        ret.out[m] = IF ValueElseAmount(list[pick]) \in {Undef, Null}
                                     THEN Empty
                                     ELSE String(ValueElseAmount(list[pick]))
                  /\ pick # 0 /\ ValueElseAmount(list[pick]) = Num(0) => ret.out[m] = Str(0)
        /\ arg.food = ExampleFood => ret.out.calories = Str(95 * Scale)

TotalLipidTakenAfterFattyAcids ==
    /\ ret.fn = "extractMacrosFromFDC"
    /\ Len(ExtractedList) = 2
    /\ NutrientName(ExtractedList[1]) = NameFattyAcids
    /\ NutrientName(ExtractedList[2]) = NameTotalLipid
    /\ ret.out.fat = Str(Scale \div 2)

\* the storage gives nothing usable under the key: it cannot be read, the key
\* is absent, or its text is empty, unparsable or the text of null
NothingStored(store, key) ==
    \/ store.mode \in {"none", "denied"}
    \/ store.items[key] \in {Null, Empty, Text}
    \/ store.items[key] = Json(Null)

\* what the claim says loadJSON returns
Loaded(store, key, fallback) ==
    IF NothingStored(store, key) THEN fallback ELSE store.items[key].v

\* C23: when the page is opened each collection is the fallback if nothing
\* usable is stored under its key and the parsed value otherwise; no save ever
\* raises; and a step on a storage that cannot be written leaves the stored
\* texts alone while memory holds what the handler set
LoadFallsBackAndSaveNeverRaises ==
    [][/\ last'.op = "mount" =>
            LET pre == last'.input.storage
            IN  /\ exercises' = Loaded(pre, "ft_exercises_v3", Arr(DEFAULT_EXERCISES)).v
                /\ workouts' = Loaded(pre, "ft_workouts_v3", Arr(<<>>)).v
                /\ nutritionDays' = Loaded(pre, "ft_nutrition_v3", Arr(<<>>)).v
                /\ macroGoals' = Loaded(pre, "ft_macro_goals_v1", DefaultGoals)
       /\ ~storage'.raised
       /\ ~fault'
       /\ storage.mode # "ok" =>
            /\ storage'.items = storage.items
            /\ last'.op = "setMacroGoals" =>
                  /\ macroGoals' = [macroGoals EXCEPT ![last'.input.key] = last'.input.value]
                  /\ nutritionDays' = nutritionDays
                  /\ exercises' = exercises
                  /\ workouts' = workouts
            /\ last'.op = "deleteDay" =>
                  /\ \A i \in Indices(nutritionDays') : nutritionDays'[i].date # last'.input.dateISO
                  /\ macroGoals' = macroGoals
      ]_vars

\* opened on a full storage holding unparsable days and no goals, then a goal
\* was edited: the days are the fallback and the edit is in memory only
FailedSaveKeptGoalsInMemory ==
    /\ last.op = "setMacroGoals"
    /\ storage.mode = "full"
    /\ storage.items["ft_nutrition_v3"] = Text
    /\ nutritionDays = <<>>
    /\ storage.items["ft_macro_goals_v1"] = Null
    /\ macroGoals # DefaultGoals
    /\ ~storage.raised

\* the handlers that write to the selected day through upsertDay
WriteOps ==
    {"addFoodToMeal", "updateFoodItem", "removeFoodItem", "editWeight", "editNotes",
     "copyMealsFromPreviousDay", "copyMealFromPreviousDay"}

\* the step was a write: a handler of WriteOps ran, did not throw, and, for a
\* copy, had a day to copy from
Wrote(l, threw) ==
    /\ l.op \in WriteOps
    /\ ~threw
    /\ l.op \in {"copyMealsFromPreviousDay", "copyMealFromPreviousDay"} => l.src # NoDay

\* the fields the handler's patch holds
PatchedFields(op) ==
    IF op = "editWeight" THEN {"weight"}
    ELSE IF op = "editNotes" THEN {"notes"}
    ELSE {"meals"}

\* the indices of the days of the calendar date selected
SelectedIndices(days) ==
    {i \in Indices(days) : sameDayISO(days[i].date, isoDateFromInput(nutriDate))}

\* the day holds the value the weight or notes input sent
PatchApplied(day, l) ==
    /\ l.op = "editWeight" => day.weight = l.input.weight
    /\ l.op = "editNotes" => day.notes = l.input.notes
    /\ l.op = "addFoodToMeal" =>
          /\ Len(day.meals[l.input.mealName].items) >= 1
          /\ \A m \in MealNames \ {l.input.mealName} :
                MealAt(day.meals, m) = MealAt(MealsOf(selectedDay), m)

\* C24: selecting a date changes no day; the first write to a date with no
\* stored Day adds exactly one Day, with a fresh id, the date selected, empty
\* meals for the four names, empty notes and weight, and the patch over them;
\* a later write changes only the patched fields of the Day of that date and
\* leaves the size of the collection and every other Day as they were
WriteTouchesOnlySelectedDay ==
    [][/\ last'.op = "setNutriDate" => nutritionDays' = nutritionDays
       /\ Wrote(last', fault') /\ SelectedIndices(nutritionDays) = {} =>
            /\ Len(nutritionDays') = Len(nutritionDays) + 1
            /\ \E k \in Indices(nutritionDays') :
                  LET day == nutritionDays'[k]
                  IN  /\ \A i \in Indices(nutritionDays) :
                            \E j \in Indices(nutritionDays') \ {k} :
                                nutritionDays'[j] = nutritionDays[i]
                      /\ DOMAIN day = {"id", "date", "meals", "notes", "weight"}
                      /\ day.id # NoId
                      /\ \A i \in Indices(nutritionDays) : nutritionDays[i].id # day.id
                      /\ day.date = isoDateFromInput(nutriDate)
                      /\ "meals" \notin PatchedFields(last'.op) => day.meals = emptyMeals
                      /\ "notes" \notin PatchedFields(last'.op) => day.notes = ""
                      /\ "weight" \notin PatchedFields(last'.op) => day.weight = Empty
                      /\ DOMAIN day.meals = MealNames
                      /\ PatchApplied(day, last')
       /\ Wrote(last', fault') /\ SelectedIndices(nutritionDays) # {} =>
            LET idx == FindIndex(SelectedIndices(nutritionDays))
            IN  /\ Len(nutritionDays') = Len(nutritionDays)
                /\ \A i \in Indices(nutritionDays) \ {idx} :
                      nutritionDays'[i] = nutritionDays[i]
                /\ DOMAIN nutritionDays'[idx] =
                      DOMAIN nutritionDays[idx] \cup PatchedFields(last'.op)
                /\ \A f \in DOMAIN nutritionDays[idx] \ PatchedFields(last'.op) :
                      nutritionDays'[idx][f] = nutritionDays[idx][f]
                /\ PatchApplied(nutritionDays'[idx], last')
      ]_vars

\* the weight of a converted day was typed in: the day keeps its id, date,
\* notes and legacyTotals
WeightWrittenToLegacyDay ==
    /\ last.op = "editWeight"
    /\ \E i \in Indices(nutritionDays) :
          /\ nutritionDays[i].id = LegacyDay.id
          /\ Member(nutritionDays[i], "weight") = Num(1410)
          /\ nutritionDays[i].legacyTotals = LegacyDay.legacyTotals
    /\ Len(nutritionDays) = 2

\* the ids of the days and of the items stored in the collection
StoredIds(days) ==
    {days[i].id : i \in Indices(days)}
        \cup UNION {{AllItems(days[i])[k].id : k \in Indices(AllItems(days[i]))} :
                      i \in Indices(days)}

\* the day of the collection days that selectedDay finds, NoDay when none
SelectedIn(days) ==
    LET idx == FindIndex(SelectedIndices(days))
    IN  IF idx = 0 THEN NoDay ELSE days[idx]

\* C25: addFoodToMeal puts exactly one item, with an id nothing stored has, in
\* front of the items of the named meal of the selected day; updateFoodItem
\* changes no item but the one with the given id; removeFoodItem removes that
\* item and no other; each leaves the other meals of the selected day and
\* every other Day as they were
ItemHandlersTouchOneItem ==
    [][last'.op \in {"addFoodToMeal", "updateFoodItem", "removeFoodItem"} =>
          \A m \in {last'.input.mealName},
             old \in {SelectedIn(nutritionDays)}, new \in {SelectedIn(nutritionDays')} :
          \A before \in {IF old = NoDay THEN <<>> ELSE ItemsOfMeal(old, m)},
             after \in {IF new = NoDay THEN <<>> ELSE ItemsOfMeal(new, m)} :
              /\ new # NoDay
              /\ last'.op = "addFoodToMeal" =>
                    /\ Len(after) = Len(before) + 1
                    /\ Tail(after) = before
                    /\ after[1].id # NoId
                    /\ after[1].id \notin StoredIds(nutritionDays)
              /\ last'.op = "updateFoodItem" =>
                    /\ Len(after) = Len(before)
                    /\ \A i \in Indices(before) :
                          /\ before[i].id # last'.input.itemId => after[i] = before[i]
                          /\ after[i].id = before[i].id
                          /\ after[i].name = before[i].name
                    /\ Cardinality({i \in Indices(before) :
                                       before[i].id = last'.input.itemId}) = 1
              /\ last'.op = "removeFoodItem" =>
                    /\ Len(after) = Len(before) - 1
                    /\ after = FilterSeq(before, {i \in Indices(before) :
                                   before[i].id # last'.input.itemId}, 1)
              /\ \A n \in MealNames \ {m} :
                    ItemsOfMeal(new, n) = IF old = NoDay THEN <<>> ELSE ItemsOfMeal(old, n)
              /\ IF old = NoDay
                 THEN /\ Len(nutritionDays') = Len(nutritionDays) + 1
                      /\ \E k \in Indices(nutritionDays') :
                            /\ RemoveAt(nutritionDays', k) = nutritionDays
                            /\ nutritionDays'[k] = new
                 ELSE LET idx == FindIndex(SelectedIndices(nutritionDays))
                      IN  [nutritionDays' EXCEPT ![idx] = old] = nutritionDays
      ]_vars

\* the servings of an item were edited on one day while the item of the same
\* food on the earlier day keeps the servings it had
EditedItemLeftEarlierDayAlone ==
    /\ last.op = "updateFoodItem"
    /\ Len(nutritionDays) = 2
    /\ \E i, j \in Indices(nutritionDays) :
          /\ nutritionDays[j].date < nutritionDays[i].date
          /\ sameDayISO(nutritionDays[i].date, isoDateFromInput(nutriDate))
          /\ Len(ItemsOfMeal(nutritionDays[i], "Lunch")) = 1
          /\ Len(ItemsOfMeal(nutritionDays[j], "Lunch")) = 1
          /\ ItemsOfMeal(nutritionDays[i], "Lunch")[1].qty = Num(0)
          /\ ItemsOfMeal(nutritionDays[j], "Lunch")[1].qty = Num(100 * Scale)

\* the weight the claim gives an entry of the day d
StatedWeight(d) ==
    LET w == Member(d, "weight")
    IN  IF w \in {Undef, Null, Empty} \/ Number(w) = NaN THEN Null ELSE Number(w)

\* C26: every entry of the macro timeline and of the weight/calories timeline
\* carries weight null when the weight of its day is unset, empty or not a
\* number, and the weight as a number otherwise
TimelineWeightNullOrNumber ==
    ret.fn \in {"buildMacroTimeline", "WeightCaloriesChart"} =>
        \A i \in Indices(ret.out) :
            \E k \in Indices(arg.timeline.days) :
                /\ "date" \in DOMAIN arg.timeline.days[k]
                /\ arg.timeline.days[k].date = ret.out[i].iso
                /\ ret.out[i].weight = StatedWeight(arg.timeline.days[k])

\* the number of days of the collection that have a date
DatedCount(days) == Cardinality({k \in Indices(days) : HasDate(days[k])})

\* C27: for a range limit of 0 or more and a collection with n dated days both
\* timelines return exactly min(limit, n) entries, never more than the limit
TimelineLengthIsMinOfLimitAndDays ==
    ret.fn \in {"buildMacroTimeline", "WeightCaloriesChart"} /\ arg.timeline.range >= 0 =>
        Len(ret.out) = Min(arg.timeline.range, DatedCount(arg.timeline.days))

\* C29: once every search issued from the search box has been answered, what
\* the box displays was set by the answer to the search issued last, whatever
\* order the answers came in; and the status is not "idle" while a search is
\* in flight
DisplayIsOfLatestSearch ==
    /\ search.pending = <<>> /\ search.latest = "answered" => search.fresh
    /\ search.pending # <<>> => search.status # "idle"

\* C28: after "Delete this day" no Day of the selected calendar date is left,
\* the selected date shows an empty unsaved day with zero totals, and every
\* Day of another calendar date is as it was
DeleteRemovesSelectedDateOnly ==
    [][last'.op = "deleteDay" =>
          /\ SelectedIndices(nutritionDays') = {}
          /\ selectedDay'.id = NoId
          /\ selectedDay'.meals = emptyMeals
          /\ calcDayTotals(selectedDay') = ZeroTotals
          /\ nutritionDays' = FilterSeq(nutritionDays,
                 Indices(nutritionDays) \ SelectedIndices(nutritionDays), 1)
      ]_vars

\* the ids of the workouts, entries and sets of the history ws and of the
\* workout being built
WorkoutIds(ws, active) ==
    LET all == IF active = Null THEN ws ELSE Append(ws, active)
    IN  UNION {{all[i].id}
               \cup {all[i].entries[j].id : j \in Indices(all[i].entries)}
               \cup UNION {{all[i].entries[j].sets[k].id :
                                k \in Indices(all[i].entries[j].sets)} :
                             j \in Indices(all[i].entries)} :
               i \in Indices(all)}

\* the ids of the entries and of their sets
EntryIds(entries) ==
    {entries[j].id : j \in Indices(entries)}
        \cup UNION {{entries[j].sets[k].id : k \in Indices(entries[j].sets)} :
                      j \in Indices(entries)}

\* copy is the entry e under another id, each of its sets under another id
IsEntryCopyOf(copy, e) ==
    /\ [copy EXCEPT !.id = e.id, !.sets = e.sets] = e
    /\ Len(copy.sets) = Len(e.sets)
    /\ \A k \in Indices(e.sets) : [copy.sets[k] EXCEPT !.id = e.sets[k].id] = e.sets[k]

\* C30: after saves and deletions from an empty history the history is in
\* descending order of createdAt, and "Copy last workout" replaces the entries
\* of the active workout by copies, under ids nothing else has, of the entries
\* of a saved workout with the latest createdAt, doing nothing when no workout
\* is active or the history is empty
HistoryNewestFirstAndCopyTakesNewest ==
    [][/\ \A i, j \in Indices(workouts') :
             i < j => workouts'[i].createdAt >= workouts'[j].createdAt
       /\ last'.op = "copyMostRecentWorkoutIntoActive" =>
            /\ workouts' = workouts
            /\ activeWorkout = Null \/ workouts = <<>> => activeWorkout' = activeWorkout
            /\ activeWorkout # Null /\ workouts # <<>> =>
                  \E n \in Indices(workouts) :
                      \A src \in {workouts[n].entries}, new \in {activeWorkout'.entries} :
                          /\ \A j \in Indices(workouts) :
                                workouts[n].createdAt >= workouts[j].createdAt
                          /\ [activeWorkout' EXCEPT !.entries = activeWorkout.entries]
                                = activeWorkout
                          /\ Len(new) = Len(src)
                          /\ \A i \in Indices(src) : IsEntryCopyOf(new[i], src[i])
                          /\ EntryIds(new) \cap WorkoutIds(workouts, activeWorkout) = {}
                          /\ Cardinality(EntryIds(new)) = IdsBefore(src, Len(src) + 1)
      ]_vars

\* the history holds two workouts, the one started first having the later
\* timestamp, and its entries were copied into the workout being built
CopiedFromLaterTimestamp ==
    /\ last.op = "copyMostRecentWorkoutIntoActive"
    /\ Len(workouts) = 2
    /\ workouts[1].id < workouts[2].id
    /\ workouts[1].createdAt > workouts[2].createdAt
    /\ activeWorkout # Null
    /\ Len(workouts[1].entries) = 1
    /\ Len(activeWorkout.entries) = 1
    /\ activeWorkout.entries[1].exerciseId = workouts[1].entries[1].exerciseId
    /\ activeWorkout.entries[1].id > activeWorkout.id

====
